---- MODULE Spec2Model ----
(***************************************************************************)
(* Verification model of the tick-processing core of a_trading:            *)
(*   - the decision reducer           (domain/services/orchestrator)       *)
(*   - the windowed market cache and the indicator store                   *)
(*                                    (infrastructure/cache/in_memory.py)  *)
(*   - the indicator stage            (domain/services/indicators)         *)
(*   - the tick pipeline and the tick loop                                 *)
(*                                    (application/services, use_cases)    *)
(*   - the snapshot service           (application/services)               *)
(*                                                                         *)
(* Python values are represented as follows.  A dict is a TLA+ record      *)
(* whose DOMAIN is the set of keys present; dict.get(k, d) is Get.  An     *)
(* optional scalar is None (the empty tuple) or Some(v) (a 1-tuple).       *)
(* A missing string is the string "None".  Numbers are small integers.     *)
(***************************************************************************)
EXTENDS Integers, Sequences, FiniteSets, TLC

VARIABLES
    cfg,        \* AppConfig and CurrencyPair sizing, fixed after construction
    context,    \* the Context dict, restricted to the single symbol
    cache,      \* InMemoryMarketCache: _ticker, _orderbook, _bars, _trades
    store,      \* InMemoryIndicatorStore: fast/medium/heavy histories
    saved,      \* the snapshot document stored under the service's key
    writes,     \* number of save_snapshot calls made on the snapshot store
    tick_id,    \* tick counter of the tick loop / last tick id handed to an operation
    pc,         \* position of the driver that calls the operations
    intents,    \* the intent list handed to decide
    decision,   \* the value returned by decide
    obs,        \* observation of the last operation (stages run, value returned, error raised)
    appended,   \* log of every item appended to each bounded FIFO
    worker      \* the order book refresh task: its position, stop flag and event trace

vars == <<cfg, context, cache, store, saved, writes, tick_id, pc, intents, decision, obs, appended, worker>>

-----------------------------------------------------------------------------
(* Python value helpers *)

None == <<>>

Some(v) == <<v>>

EmptyDict == [k \in {} |-> 0]

Get(d, k, default) == IF k \in DOMAIN d THEN d[k] ELSE default

-----------------------------------------------------------------------------
(* Bounds of the model *)

MaxIntents == 3

MaxAmount == 2

MaxTs == 2

MaxAppends == 4

MaxItem == 2

MaxCap == 2

MaxLevels == 3

MaxTicks == 4

\* Prices of the ticks: two distinct values tell the order of entries apart.
PriceValues == {1, 2}

MaxInterval == 2

MaxTickId == 6

MaxStart == 1

MaxSteps == 4

MaxFetches == 3

-----------------------------------------------------------------------------
(* Construction: init_context, InMemoryMarketCache, InMemoryIndicatorStore *)

\* init_context: the sections of a fresh Context (single symbol view).
\* "market" and "risk" hold no entry for the symbol, the current slices are
\* absent, the histories are empty and metrics is {"ticks": 0}.
init_context ==
    [ market             |-> EmptyDict,
      indicators         |-> None,
      indicators_history |-> <<>>,
      intents            |-> None,
      intents_history    |-> <<>>,
      decisions          |-> None,
      decisions_history  |-> <<>>,
      metrics            |-> [ticks |-> 0],
      risk               |-> EmptyDict,
      price_history      |-> <<>>,
      ticker_history     |-> <<>> ]

\* InMemoryMarketCache.__init__: no ticker, no order book, empty deques.
InMemoryMarketCache_init ==
    [ ticker |-> None, orderbook |-> None, bars |-> <<>>, trades |-> <<>> ]

\* InMemoryIndicatorStore.__init__: three empty deques.
InMemoryIndicatorStore_init ==
    [ fast_history |-> <<>>, medium_history |-> <<>>, heavy_history |-> <<>> ]

\* AppConfig defaults that matter here, with the CurrencyPair sizes.
DefaultCfg ==
    [ fast |-> 1, medium |-> 3, heavy |-> 5, snap |-> 0,
      window |-> 2, depth |-> 2, barCap |-> 2, tradeCap |-> 2,
      hasStore |-> TRUE, hasCache |-> TRUE, hasPair |-> TRUE, start |-> 0 ]

NoObs == [op |-> "none"]

\* No refresh task has been created.
NoWorker == [pc |-> "none"]

NoAppends == [trades |-> <<>>, bars |-> <<>>, fast |-> <<>>, medium |-> <<>>, heavy |-> <<>>, prices |-> <<>>]

-----------------------------------------------------------------------------
(* decide: domain/services/orchestrator/orchestrator.py *)

\* context.get("market", {}).get(symbol, {}).get("ts")
MarketTs(ctx) == IF "ts" \in DOMAIN ctx.market THEN Some(ctx.market.ts) ELSE None

\* float(x) inside try/except (TypeError, ValueError): a number or a numeric
\* string converts to its value, any other text raises and yields None.
ToFloat(x) == IF x.kind \in {"num", "numstr"} THEN Some(x.v) ELSE None

\* Mutation of ScanIntents: the loop without its break keeps the LAST
\* intent whose action is not HOLD.
RECURSIVE ScanIntentsNoBreak(_, _)
ScanIntentsNoBreak(its, i) ==
    IF i > Len(its) THEN 0
    ELSE LET rest == ScanIntentsNoBreak(its, i + 1)
         IN IF rest # 0 THEN rest
            ELSE IF Get(its[i], "action", "None") # "HOLD" THEN i ELSE 0

\* for intent in intents: if intent.get("action") != "HOLD": chosen = intent; break
\* Returns the index of the chosen intent, 0 when chosen_intent stays None.
RECURSIVE ScanIntents(_, _)
ScanIntents(its, i) ==
    IF i > Len(its) THEN 0
    ELSE IF Get(its[i], "action", "None") # "HOLD" THEN i
    ELSE ScanIntents(its, i + 1)

\* Mutation of RiskExceeded: a non-strict comparison.
RiskExceededNonStrict(amount_value, max_amount_value) ==
    /\ amount_value # None
    /\ max_amount_value # None
    /\ amount_value[1] >= max_amount_value[1]

\* max_amount_value is not None and amount_value > max_amount_value
\* (amount_value is not None is tested by the enclosing if)
RiskExceeded(amount_value, max_amount_value) ==
    /\ amount_value # None
    /\ max_amount_value # None
    /\ amount_value[1] > max_amount_value[1]

decide(its, ctx) ==
    LET hold == [action |-> "HOLD", reason |-> "no_action", ts |-> MarketTs(ctx)]
        i    == ScanIntents(its, 1)
    IN  IF i = 0 THEN hold
        ELSE
          LET chosen_intent == its[i]
              d == [ action |-> Get(chosen_intent, "action", "None"),
                     reason |-> Get(chosen_intent, "reason", "intent"),
                     params |-> Get(chosen_intent, "params", EmptyDict) ]
              risk_cfg     == ctx.risk
              has_max      == "max_amount" \in DOMAIN risk_cfg
              params       == d.params
              amount_value == IF "amount" \in DOMAIN params
                              THEN ToFloat(params.amount) ELSE None
              max_amount_value == IF has_max THEN ToFloat(risk_cfg.max_amount) ELSE None
          IN  IF has_max /\ amount_value # None
                 /\ RiskExceeded(amount_value, max_amount_value)
              THEN [action |-> "HOLD", reason |-> "risk_limit_exceeded", ts |-> MarketTs(ctx)]
              ELSE d

-----------------------------------------------------------------------------
(* Inputs of decide *)

Num(n) == [kind |-> "num", v |-> n]

AmountValues == {Num(n) : n \in 0..MaxAmount} \cup {[kind |-> "numstr", v |-> 1], [kind |-> "text", v |-> 0]}

ParamsValues == {EmptyDict} \cup {[amount |-> a] : a \in AmountValues}

HoldIntents ==
    { [action |-> "HOLD", reason |-> "no_signal"],
      [action |-> "HOLD", reason |-> "cooldown", params |-> EmptyDict] }

TradeIntents ==
    {[action |-> "BUY", reason |-> "signal", params |-> p] : p \in ParamsValues}
      \cup {[action |-> "BUY", reason |-> "manual"],
            [action |-> "BUY", params |-> [amount |-> Num(MaxAmount)]],
            [action |-> "SELL", reason |-> "take_profit", params |-> [amount |-> Num(1)]],
            [reason |-> "untagged", params |-> EmptyDict]}

IntentValues == HoldIntents \cup TradeIntents

IntentLists == UNION {[1..n -> IntentValues] : n \in 0..MaxIntents}

RiskValues == {EmptyDict} \cup {[max_amount |-> m] : m \in {Num(n) : n \in 0..MaxAmount} \cup {[kind |-> "text", v |-> 0]}}

MarketValues == {EmptyDict} \cup {[last_price |-> 1, ts |-> t] : t \in 1..MaxTs}

-----------------------------------------------------------------------------
(* SpecDecide: decide applied to every bounded intent list and context *)

InitDecide ==
    /\ cfg = DefaultCfg
    /\ \E m \in MarketValues, r \in RiskValues :
         context = [init_context EXCEPT !.market = m, !.risk = r]
    /\ cache = InMemoryMarketCache_init
    /\ store = InMemoryIndicatorStore_init
    /\ saved = None
    /\ writes = 0
    /\ tick_id = 1
    /\ pc = "call"
    /\ intents \in IntentLists
    /\ decision = None
    /\ obs = NoObs
    /\ appended = NoAppends
    /\ worker = NoWorker

\* Mutation of decide_arguments: the chosen intent is taken out of the list
\* (intents.pop).
decide_arguments_pop(its, ctx) ==
    LET i == ScanIntents(its, 1)
    IN  [ intents |-> IF i = 0 THEN its
                      ELSE SubSeq(its, 1, i - 1) \o SubSeq(its, i + 1, Len(its)),
          context |-> ctx ]

\* The arguments of decide after the call: the function reads them with
\* .get and iterates the list; it assigns into neither.
decide_arguments(its, ctx) == [intents |-> its, context |-> ctx]

\* result = decide(intents, context, tick_id=..., symbol=...)
Decide ==
    /\ pc = "call"
    /\ decision' = Some(decide(intents, context))
    /\ \E after \in {decide_arguments(intents, context)} :
         /\ intents' = after.intents
         /\ context' = after.context
    /\ obs' = [op |-> "decide", intents_before |-> intents, context_before |-> context]
    /\ pc' = "returned"
    /\ UNCHANGED <<cfg, cache, store, saved, writes, tick_id, appended, worker>>

\* A second call with the arguments of the first.
DecideAgain ==
    /\ pc = "returned"
    /\ decision' = Some(decide(intents, context))
    /\ \E after \in {decide_arguments(intents, context)} :
         /\ intents' = after.intents
         /\ context' = after.context
    /\ obs' = [obs EXCEPT !.op = "decide_again"] @@ [first |-> decision]
    /\ pc' = "repeated"
    /\ UNCHANGED <<cfg, cache, store, saved, writes, tick_id, appended, worker>>

NextDecide == Decide \/ DecideAgain

SpecDecide == InitDecide /\ [][NextDecide]_vars

-----------------------------------------------------------------------------
(* InMemoryMarketCache: infrastructure/cache/in_memory.py *)

Min(a, b) == IF a < b THEN a ELSE b

Max(a, b) == IF a > b THEN a ELSE b

\* Mutation of DequeAppend: the append of a plain list, nothing is evicted.
DequeAppendNoEvict(q, x, maxlen) == Append(q, x)

\* Mutation of DequeAppend: a full buffer refuses the new item and keeps
\* its oldest ones.
DequeAppendKeepOldest(q, x, maxlen) == IF Len(q) >= maxlen THEN q ELSE Append(q, x)

\* collections.deque(maxlen=maxlen).append(x): with maxlen = 0 the item is
\* discarded, a full deque drops its oldest (leftmost) item first.
DequeAppend(q, x, maxlen) ==
    IF maxlen = 0 THEN q
    ELSE IF Len(q) >= maxlen THEN Append(Tail(q), x)
    ELSE Append(q, x)

\* Mutation of SliceHead: the depth is ignored and the list is kept whole.
SliceHeadWhole(s, n) == s

\* list(s)[:n]: the first n items for n >= 0, all but the last -n for n < 0.
SliceHead(s, n) ==
    IF n >= 0 THEN SubSeq(s, 1, Min(n, Len(s)))
    ELSE SubSeq(s, 1, Max(0, Len(s) + n))

\* items[k:]: from index k when k >= 0 (clipped to the length), from the
\* k-th item counted from the end when k < 0; -0 is 0.
SliceFrom(s, k) ==
    IF k >= 0 THEN SubSeq(s, Min(k, Len(s)) + 1, Len(s))
    ELSE SubSeq(s, Max(0, Len(s) + k) + 1, Len(s))

\* get_trades / get_bars on the list of the deque:
\* if limit is None or limit >= len(items): return items
\* return items[-limit:]
get_items(items, limit) ==
    IF limit = None \/ limit[1] >= Len(items) THEN items
    ELSE SliceFrom(items, 0 - limit[1])

\* self._trades.append(trade)
add_trade(c, trade, cf) == [c EXCEPT !.trades = DequeAppend(@, trade, cf.tradeCap)]

\* self._bars.append(bar)
add_bar(c, bar, cf) == [c EXCEPT !.bars = DequeAppend(@, bar, cf.barCap)]

\* The symbol owned by the cache (pair.symbol).
OwnSymbol == "BTC/USDT"

\* Mutation of update_orderbook: the cache is emptied when a book is
\* stored (ticker, trades and bars are dropped).
update_orderbook_reset(c, orderbook, cf) ==
    [ ticker    |-> None,
      orderbook |-> Some([k \in DOMAIN orderbook \cup {"symbol", "bids", "asks"} |->
                       CASE k = "symbol" -> (IF Get(orderbook, "symbol", "") # ""
                                             THEN orderbook.symbol ELSE OwnSymbol)
                         [] k = "bids"   -> SliceHead(Get(orderbook, "bids", <<>>), cf.depth)
                         [] k = "asks"   -> SliceHead(Get(orderbook, "asks", <<>>), cf.depth)
                         [] OTHER        -> orderbook[k]]),
      bars      |-> <<>>,
      trades    |-> <<>> ]

\* Mutation of update_orderbook: the sides are written one after the other
\* over the stored book, and a side the new book lacks keeps its old levels.
update_orderbook_merge(c, orderbook, cf) ==
    LET old  == IF c.orderbook = None THEN EmptyDict ELSE c.orderbook[1]
        bids == Get(orderbook, "bids", Get(old, "bids", <<>>))
        asks == Get(orderbook, "asks", Get(old, "asks", <<>>))
        sym  == Get(orderbook, "symbol", "")
    IN  [c EXCEPT !.orderbook =
            Some([k \in DOMAIN orderbook \cup {"symbol", "bids", "asks"} |->
                    CASE k = "symbol" -> (IF sym # "" THEN sym ELSE OwnSymbol)
                      [] k = "bids"   -> SliceHead(bids, cf.depth)
                      [] k = "asks"   -> SliceHead(asks, cf.depth)
                      [] OTHER        -> orderbook[k]])]

\* update_orderbook: {**orderbook, "symbol": orderbook.get("symbol") or
\* self.symbol, "bids": list(bids)[:depth], "asks": list(asks)[:depth]}
\* stored in place of the previous book.
update_orderbook(c, orderbook, cf) ==
    LET depth == cf.depth
        bids  == Get(orderbook, "bids", <<>>)
        asks  == Get(orderbook, "asks", <<>>)
        sym   == Get(orderbook, "symbol", "")
        trimmed == [k \in DOMAIN orderbook \cup {"symbol", "bids", "asks"} |->
                      CASE k = "symbol" -> (IF sym # "" THEN sym ELSE OwnSymbol)
                        [] k = "bids"   -> SliceHead(bids, depth)
                        [] k = "asks"   -> SliceHead(asks, depth)
                        [] OTHER        -> orderbook[k]]
    IN  [c EXCEPT !.orderbook = Some(trimmed)]

\* if "symbol" not in ticker: ticker = {**ticker, "symbol": self.symbol}
update_ticker(c, ticker) ==
    LET t == IF "symbol" \in DOMAIN ticker THEN ticker
             ELSE [k \in DOMAIN ticker \cup {"symbol"} |->
                      IF k = "symbol" THEN OwnSymbol ELSE ticker[k]]
    IN  [c EXCEPT !.ticker = Some(t)]

-----------------------------------------------------------------------------
(* Inputs of the market cache *)

\* A side of an order book: n levels, closest to mid first, of one fetch.
Side(base, n) == [i \in 1..n |-> 10 * base + i]

OrderBooks ==
    UNION { { [symbol |-> "BTC/USDT", bids |-> Side(b, nb), asks |-> Side(b, na), timestamp |-> b],
              [bids |-> Side(b, nb), asks |-> Side(b, na)],
              [symbol |-> "", asks |-> Side(b, na), nonce |-> b] }
            : b \in 1..2, nb \in 0..MaxLevels, na \in {0, MaxLevels} }

-----------------------------------------------------------------------------
(* InMemoryIndicatorStore policy and IndicatorEngine.on_ticker *)

fast_window == 5

medium_window == 20

heavy_window == 100

sma_7_window == 7

sma_25_window == 25

PriceHistoryMaxLen == 500

DefaultWindow == 1000

DefaultSnapshotInterval == 100

\* Mutation of should_update: the cadence fires one tick early.
should_update_early(interval, t) == interval > 0 /\ (t + 1) % interval = 0

\* InMemoryIndicatorStore._should_update
should_update(interval, t) == interval > 0 /\ t % interval = 0

\* A float is kept as an exact fraction in lowest terms.
RECURSIVE Gcd(_, _)
Gcd(a, b) == IF b = 0 THEN a ELSE Gcd(b, a % b)

Frac(num, den) ==
    LET g == Gcd(IF num < 0 THEN -num ELSE num, den)
    IN  IF g = 0 THEN [num |-> 0, den |-> 1] ELSE [num |-> num \div g, den |-> den \div g]

RECURSIVE Sum(_)
Sum(s) == IF s = <<>> THEN 0 ELSE Head(s) + Sum(Tail(s))

\* _sma: sum(values) / len(values)
Sma(values) == Frac(Sum(values), Len(values))

\* history_list[-n:] for n > 0
LastN(s, n) == SubSeq(s, Max(1, Len(s) - n + 1), Len(s))

\* Mutation of CadenceAppends: the append left outside the `if due` block.
CadenceAppendsAlways(due, last_price) == <<last_price>>

\* The append calls one cadence block of on_ticker makes on its history:
\* store.<cadence>_history.append(last_price) inside `if should_update_*`.
CadenceAppends(due, last_price) == IF due THEN <<last_price>> ELSE <<>>

RECURSIVE DequeExtend(_, _, _)
DequeExtend(q, xs, maxlen) ==
    IF xs = <<>> THEN q ELSE DequeExtend(DequeAppend(q, Head(xs), maxlen), Tail(xs), maxlen)

\* _get_window_size_for_symbol: pair.indicator_window_size, 1000 without a pair
WindowSizeForSymbol(cf) == IF cf.hasPair THEN cf.window ELSE DefaultWindow

\* Mutation of append_with_window: a full list is cut at its end, so the
\* newest entries are the ones dropped.
append_with_window_keep_head(sequence, item, maxlen) ==
    LET s2 == Append(sequence, item)
    IN  IF Len(s2) > maxlen THEN SubSeq(s2, 1, Max(maxlen, 0)) ELSE s2

\* _append_with_window: append, then del sequence[0 : len - maxlen] if longer
append_with_window(sequence, item, maxlen) ==
    LET s2 == Append(sequence, item)
    IN  IF Len(s2) > maxlen
        THEN SubSeq(s2, Min(Len(s2) - maxlen, Len(s2)) + 1, Len(s2))
        ELSE s2

\* record_indicators: last snapshot and bounded history in Context
record_indicators(ctx, snapshot, cf) ==
    [ctx EXCEPT !.indicators = Some(snapshot),
                !.indicators_history = append_with_window(@, snapshot, WindowSizeForSymbol(cf))]

PutIf(cond, k, v, d) == IF cond THEN (k :> v) @@ d ELSE d

\* IndicatorEngine.on_ticker.  The optional talib indicators (RSI, MACD,
\* Bollinger bands) need the guarded numpy/talib import and at least 30
\* prices; they are modelled for a build without talib (_talib is None).
on_ticker(ctx, st, cf, ticker_id, ticker) ==
    LET last_price   == ticker.last
        history      == DequeAppend(ctx.price_history, last_price, PriceHistoryMaxLen)
        ticker_hist  == DequeAppend(ctx.ticker_history, ticker, PriceHistoryMaxLen)
        n            == Len(history)
        dueFast      == cf.hasStore /\ should_update(cf.fast, ticker_id)
        dueMedium    == cf.hasStore /\ should_update(cf.medium, ticker_id)
        dueHeavy     == cf.hasStore /\ should_update(cf.heavy, ticker_id)
        bid          == ticker.bid
        ask          == ticker.ask
        spread       == Frac(Max(0, ask - bid), 1)
        mid          == IF ask # 0 /\ bid # 0 THEN Frac(ask + bid, 2) ELSE Frac(last_price, 1)
        i0 == EmptyDict
        i1 == PutIf(dueFast /\ n >= fast_window, "sma_fast_5", Sma(LastN(history, fast_window)), i0)
        i2 == PutIf(dueFast /\ n >= 1, "sma_7", Sma(LastN(history, sma_7_window)), i1)
        i3 == PutIf(dueFast /\ n >= sma_25_window, "sma_25", Sma(LastN(history, sma_25_window)), i2)
        i4 == PutIf(dueFast, "spread", spread, i3)
        i5 == PutIf(dueFast, "mid_price", mid, i4)
        i6 == PutIf(dueMedium /\ n >= medium_window, "sma_medium_20", Sma(LastN(history, medium_window)), i5)
        indicators == PutIf(dueHeavy /\ n >= heavy_window, "sma_heavy_100", Sma(LastN(history, heavy_window)), i6)
        appends == [ fast   |-> CadenceAppends(dueFast, last_price),
                     medium |-> CadenceAppends(dueMedium, last_price),
                     heavy  |-> CadenceAppends(dueHeavy, last_price) ]
        st2 == [ fast_history   |-> DequeExtend(st.fast_history, appends.fast, cf.window),
                 medium_history |-> DequeExtend(st.medium_history, appends.medium, cf.window),
                 heavy_history  |-> DequeExtend(st.heavy_history, appends.heavy, cf.window) ]
        sma_placeholder == IF "sma_7" \in DOMAIN indicators THEN indicators["sma_7"] ELSE Frac(last_price, 1)
        snapshot == indicators @@
                    [ symbol |-> OwnSymbol, ticker_id |-> ticker_id, price |-> Frac(last_price, 1),
                      sma |-> sma_placeholder, rsi |-> Frac(50, 1), ts |-> MarketTs(ctx) ]
        ctx2 == [ctx EXCEPT !.price_history = history, !.ticker_history = ticker_hist]
    IN  [ context  |-> record_indicators(ctx2, snapshot, cf),
          store    |-> IF cf.hasStore THEN st2 ELSE st,
          snapshot |-> snapshot,
          appends  |-> appends ]

\* compute_indicators: the simplified ticker built from the price, then on_ticker
compute_indicators(ctx, st, cf, ticker_id, price) ==
    LET ts == MarketTs(ctx)
        ticker == [ symbol |-> OwnSymbol, timestamp |-> (IF ts # None THEN ts[1] ELSE 0),
                    last |-> price, bid |-> price, ask |-> price ]
    IN  on_ticker(ctx, st, cf, ticker_id, ticker)

-----------------------------------------------------------------------------
(* SpecCaches: the market cache, the cadence policy and the indicator stage,
   each driven directly the way the unit tests drive them.  pc names the
   component under the driver: "fifo", "book", "policy" or "indicators". *)

\* Cadence intervals of the indicator runs: fast <= medium <= heavy as
\* AppConfig.validate orders them (0 switches a cadence off), with the
\* 1 / 2 / 10 scenario.
IntervalTriples ==
    {<<f, m, h>> \in (0..MaxInterval) \X (0..MaxInterval) \X (0..MaxInterval) : f <= m /\ m <= h}
        \cup {<<1, 2, 10>>}

\* Context shapes the indicator stage is run on: built by build_context
\* (pair and store present), the bare dict of the unit test (store, market
\* ts, no pair), and init_context alone (no store).
ContextShapes ==
    { [hasPair |-> TRUE,  hasStore |-> TRUE,  market |-> EmptyDict],
      [hasPair |-> FALSE, hasStore |-> TRUE,  market |-> [ts |-> 1]],
      [hasPair |-> FALSE, hasStore |-> FALSE, market |-> [last_price |-> 1, ts |-> 1]] }

InitFifo ==
    /\ pc = "fifo"
    /\ \E tc \in 0..MaxCap, bc \in 0..MaxCap :
         cfg = [DefaultCfg EXCEPT !.tradeCap = tc, !.barCap = bc]
    /\ context = init_context
    /\ tick_id = 0

InitBook ==
    /\ pc = "book"
    /\ \E dp \in 0..MaxCap : cfg = [DefaultCfg EXCEPT !.depth = dp]
    /\ context = init_context
    /\ tick_id = 0

InitPolicy ==
    /\ pc = "policy"
    /\ \E f \in -1..MaxInterval, m \in 0..MaxInterval, h \in 0..MaxInterval + 1 :
         cfg = [DefaultCfg EXCEPT !.fast = f, !.medium = m, !.heavy = h]
    /\ context = init_context
    /\ tick_id = 0

InitIndicators ==
    /\ pc = "indicators"
    /\ \E w \in 0..MaxCap, iv \in IntervalTriples, sh \in ContextShapes, st \in 0..MaxStart :
         /\ cfg = [DefaultCfg EXCEPT !.fast = iv[1], !.medium = iv[2], !.heavy = iv[3],
                                     !.window = w, !.start = st,
                                     !.hasPair = sh.hasPair, !.hasStore = sh.hasStore]
         /\ context = [init_context EXCEPT !.market = sh.market]
         /\ tick_id = st

InitCaches ==
    /\ InitFifo \/ InitBook \/ InitPolicy \/ InitIndicators
    /\ cache = InMemoryMarketCache_init
    /\ store = InMemoryIndicatorStore_init
    /\ saved = None
    /\ writes = 0
    /\ intents = <<>>
    /\ decision = None
    /\ obs = NoObs
    /\ appended = NoAppends
    /\ worker = NoWorker

\* cache.add_trade({"id": x})
AddTrade ==
    /\ pc = "fifo"
    /\ Len(appended.trades) + Len(appended.bars) < MaxAppends
    /\ \E x \in 1..MaxItem :
         /\ cache' = add_trade(cache, x, cfg)
         /\ appended' = [appended EXCEPT !.trades = Append(@, x)]
         /\ obs' = [op |-> "add_trade", item |-> x, before |-> cache]
    /\ UNCHANGED <<cfg, context, store, saved, writes, tick_id, pc, intents, decision, worker>>

\* cache.add_bar({"i": x})
AddBar ==
    /\ pc = "fifo"
    /\ Len(appended.trades) + Len(appended.bars) < MaxAppends
    /\ \E x \in 1..MaxItem :
         /\ cache' = add_bar(cache, x, cfg)
         /\ appended' = [appended EXCEPT !.bars = Append(@, x)]
         /\ obs' = [op |-> "add_bar", item |-> x, before |-> cache]
    /\ UNCHANGED <<cfg, context, store, saved, writes, tick_id, pc, intents, decision, worker>>

\* cache.get_trades(limit) and cache.get_bars(limit), limit omitted or >= 0
GetItems ==
    /\ pc = "fifo"
    /\ \E fifo \in {"trades", "bars"}, limit \in {None} \cup {Some(n) : n \in 0..(MaxCap + 1)} :
         obs' = [op |-> "get_items", fifo |-> fifo, limit |-> limit,
                 result |-> get_items(cache[fifo], limit), before |-> cache]
    /\ UNCHANGED <<cfg, context, cache, store, saved, writes, tick_id, pc, intents, decision, appended, worker>>

\* cache.update_orderbook(ob)
UpdateOrderbook ==
    /\ pc = "book"
    /\ \E ob \in OrderBooks :
         /\ cache' = update_orderbook(cache, ob, cfg)
         /\ obs' = [op |-> "update_orderbook", arg |-> ob, before |-> cache]
    /\ UNCHANGED <<cfg, context, store, saved, writes, tick_id, pc, intents, decision, appended, worker>>

CadenceInterval(cf, cadence) ==
    CASE cadence = "fast" -> cf.fast [] cadence = "medium" -> cf.medium [] OTHER -> cf.heavy

\* store.should_update_fast / _medium / _heavy (t)
AskShouldUpdate ==
    /\ pc = "policy"
    /\ \E cadence \in {"fast", "medium", "heavy"}, t \in -MaxTickId..MaxTickId :
         /\ obs' = [op |-> "should_update", cadence |-> cadence, tick |-> t,
                    result |-> should_update(CadenceInterval(cfg, cadence), t)]
         /\ tick_id' = t
    /\ UNCHANGED <<cfg, context, cache, store, saved, writes, pc, intents, decision, appended, worker>>

\* compute_indicators(context, ticker_id=tick_id + 1, symbol=symbol, price=price)
ComputeIndicators ==
    /\ pc = "indicators"
    /\ tick_id - cfg.start < MaxTicks
    /\ \E price \in PriceValues :
         LET tid == tick_id + 1
             r   == compute_indicators(context, store, cfg, tid, price)
         IN  /\ context' = r.context
             /\ store' = r.store
             /\ tick_id' = tid
             /\ appended' = [appended EXCEPT !.fast = @ \o r.appends.fast,
                                             !.medium = @ \o r.appends.medium,
                                             !.heavy = @ \o r.appends.heavy,
                                             !.prices = Append(@, price)]
             /\ obs' = [op |-> "compute_indicators", ticker_id |-> tid, price |-> price,
                        store_before |-> store, appends |-> r.appends, snapshot |-> r.snapshot]
    /\ UNCHANGED <<cfg, cache, saved, writes, pc, intents, decision, worker>>

NextCaches == AddTrade \/ AddBar \/ GetItems \/ UpdateOrderbook \/ AskShouldUpdate \/ ComputeIndicators

SpecCaches == InitCaches /\ [][NextCaches]_vars

-----------------------------------------------------------------------------
(* process_tick, maybe_save and the tick loop *)

\* Mutation of update_market_state: the market view also carries the number
\* of ask levels of the order book the cache holds.
update_market_state_book_levels(ctx, c, cf, price, ts) ==
    [ context |-> [ctx EXCEPT !.market =
                       [last_price |-> price, ts |-> ts,
                        levels |-> IF c.orderbook = None THEN 0
                                   ELSE Len(c.orderbook[1].asks)]],
      cache   |-> IF cf.hasCache
                  THEN update_ticker(c, [symbol |-> OwnSymbol, last |-> price, timestamp |-> ts])
                  ELSE c ]

\* Mutation of update_market_state: the tick is also stored as a trade and
\* as a bar, as the order-flow simulator of the offline demo does.
update_market_state_orderflow(ctx, c, cf, price, ts) ==
    [ context |-> [ctx EXCEPT !.market = [last_price |-> price, ts |-> ts]],
      cache   |-> IF cf.hasCache
                  THEN add_bar(add_trade(
                           update_ticker(c, [symbol |-> OwnSymbol, last |-> price, timestamp |-> ts]),
                           [price |-> price, timestamp |-> ts], cf),
                           [close |-> price, timestamp |-> ts], cf)
                  ELSE c ]

\* update_market_state: market[symbol] = {"last_price": price, "ts": ts}, and
\* the ticker {"symbol", "last", "timestamp"} into the pair's market cache
\* when the context holds one.
update_market_state(ctx, c, cf, price, ts) ==
    [ context |-> [ctx EXCEPT !.market = [last_price |-> price, ts |-> ts]],
      cache   |-> IF cf.hasCache
                  THEN update_ticker(c, [symbol |-> OwnSymbol, last |-> price, timestamp |-> ts])
                  ELSE c ]

\* update_metrics: m["ticks"] = ticker_id
update_metrics(ctx, ticker_id) ==
    [ctx EXCEPT !.metrics = ("ticks" :> ticker_id) @@ @]

\* evaluate_strategies: SELL on multiples of 3, else BUY on even ticks, else HOLD
evaluate_strategies(tid) ==
    IF tid % 3 = 0
    THEN <<[action |-> "SELL", confidence |-> Frac(4, 10), reason |-> "demo_down", params |-> EmptyDict]>>
    ELSE IF tid % 2 = 0
    THEN <<[action |-> "BUY", confidence |-> Frac(7, 10), reason |-> "demo_up", params |-> [budget |-> Num(100)]]>>
    ELSE <<[action |-> "HOLD", confidence |-> Frac(1, 10), reason |-> "no_signal", params |-> EmptyDict]>>

\* record_intents: last intents and bounded history in Context
record_intents(ctx, its, cf) ==
    [ctx EXCEPT !.intents = Some(its),
                !.intents_history = append_with_window(@, its, WindowSizeForSymbol(cf))]

\* record_decision: last decision and bounded history in Context
record_decision(ctx, d, cf) ==
    [ctx EXCEPT !.decisions = Some(d),
                !.decisions_history = append_with_window(@, d, WindowSizeForSymbol(cf))]

\* execute: a stub that only logs; the call itself is what is recorded.
execute(d, tid) == [decision |-> d, tick_id |-> tid, symbol |-> OwnSymbol]

\* Keyword names each callee declares without a default (besides the
\* positional arguments the callers pass positionally).
compute_indicators_params == {"ticker_id", "symbol", "price"}

evaluate_strategies_params == {"tick_id", "symbol"}

decide_params == {"tick_id", "symbol"}

execute_params == {"tick_id", "symbol"}

update_metrics_params == {"ticker_id"}

make_state_snapshot_params == {"symbol", "ticker_id"}

\* Python binds a call's keyword arguments by name: a keyword the callee does
\* not declare, or a required parameter left unfilled, raises TypeError
\* before the callee's body runs.
CallBinds(passed, params) == passed = params

\* One stage appended to the trace of a running process_tick.
Ran(r, stage) == [r EXCEPT !.stages = Append(@, stage)]

Raise(r) == [r EXCEPT !.raised = TRUE]

\* TickPipelineService.process_tick is written stage by stage, last stage
\* first; each part takes the running result r: the context, cache and
\* store so far, the stages whose body ran (in order), the execute calls
\* made and whether the call has ended by raising.

\* STATE: update_metrics(context, tick_id=tick_id)
process_tick_metrics(r, tid) ==
    IF ~CallBinds({"tick_id"}, update_metrics_params) THEN Raise(r)
    ELSE Ran([r EXCEPT !.context = update_metrics(@, tid)], "MetricsUpdate")

\* if action and action != "HOLD"
WantsExecute(d) ==
    LET action == Get(d, "action", "None")
    IN  action # "None" /\ action # "" /\ action # "HOLD"

\* EXEC: execute(decision, context, tick_id=tick_id, symbol=symbol) or the
\* HOLD log line, then the metrics stage.
process_tick_execute(r, d, tid) ==
    IF ~WantsExecute(d) THEN process_tick_metrics(r, tid)
    ELSE IF ~CallBinds({"tick_id", "symbol"}, execute_params) THEN Raise(r)
    ELSE process_tick_metrics(
             Ran([r EXCEPT !.executed = Append(@, execute(d, tid))], "Execute"), tid)

\* record_decision(context, symbol=symbol, decision=decision), then EXEC
process_tick_decided(r, d, cf, tid) ==
    process_tick_execute(
        Ran([r EXCEPT !.context = record_decision(@, d, cf)], "DecisionReduce"), d, tid)

\* record_intents, then ORCH: decide(intents, context, tick_id=..., symbol=...)
process_tick_intents(r, its, cf, tid) ==
    IF ~CallBinds({"tick_id", "symbol"}, decide_params) THEN Raise(r)
    ELSE process_tick_decided(r, decide(its, r.context), cf, tid)

\* STRAT: evaluate_strategies(context, tick_id=tick_id, symbol=symbol)
process_tick_strategies(r, cf, tid) ==
    IF ~CallBinds({"tick_id", "symbol"}, evaluate_strategies_params) THEN Raise(r)
    ELSE process_tick_intents(
             Ran([r EXCEPT !.context = record_intents(@, evaluate_strategies(tid), cf)],
                 "StrategyEvaluate"),
             evaluate_strategies(tid), cf, tid)

\* The running result once compute_indicators has returned ind.
WithIndicators(r, ind) ==
    Ran([r EXCEPT !.context = ind.context, !.store = ind.store], "IndicatorCompute")

\* IND: compute_indicators(context, tick_id=tick_id, symbol=symbol, price=price)
process_tick_indicators(r, cf, tid, price) ==
    IF ~CallBinds({"tick_id", "symbol", "price"}, compute_indicators_params) THEN Raise(r)
    ELSE process_tick_strategies(
             WithIndicators(r, compute_indicators(r.context, r.store, cf, tid, price)),
             cf, tid)

\* The running result once update_market_state has returned m.
AfterMarketUpdate(m, st) ==
    [ context |-> m.context, cache |-> m.cache, store |-> st,
      stages |-> <<"MarketUpdate">>, executed |-> <<>>, raised |-> FALSE ]

\* FEEDS: update_market_state(context, symbol=symbol, price=price, ts=ts),
\* then the remaining stages.
process_tick(ctx, c, st, cf, tid, price, ts) ==
    process_tick_indicators(
        AfterMarketUpdate(update_market_state(ctx, c, cf, price, ts), st), cf, tid, price)

\* Mutation of make_state_snapshot: the snapshot also carries the price
\* history of the indicator engine.
make_state_snapshot_with_prices(ctx, ticker_id) ==
    [ symbol             |-> OwnSymbol,
      ticker_id          |-> ticker_id,
      market             |-> IF DOMAIN ctx.market = {} THEN None ELSE Some(ctx.market),
      indicators         |-> ctx.indicators,
      indicators_history |-> ctx.indicators_history,
      intents            |-> IF ctx.intents = None THEN <<>> ELSE ctx.intents[1],
      intents_history    |-> ctx.intents_history,
      decision           |-> ctx.decisions,
      decisions_history  |-> ctx.decisions_history,
      metrics            |-> ctx.metrics,
      price_history      |-> ctx.price_history ]

\* make_state_snapshot: the serialisable state of the symbol
make_state_snapshot(ctx, ticker_id) ==
    [ symbol             |-> OwnSymbol,
      ticker_id          |-> ticker_id,
      market             |-> IF DOMAIN ctx.market = {} THEN None ELSE Some(ctx.market),
      indicators         |-> ctx.indicators,
      indicators_history |-> ctx.indicators_history,
      intents            |-> IF ctx.intents = None THEN <<>> ELSE ctx.intents[1],
      intents_history    |-> ctx.intents_history,
      decision           |-> ctx.decisions,
      decisions_history  |-> ctx.decisions_history,
      metrics            |-> ctx.metrics ]

\* Keys of a snapshot whose value is a dict or None, a list, a number.
OptionalKeys == {"market", "indicators", "decision"}

ArrayKeys == {"indicators_history", "intents", "intents_history", "decisions_history"}

NumberKeys == {"ticker_id", "tick_id"}

\* json.dumps(snapshot): the members of the JSON object written to the file,
\* each value under its JSON type: None is written as null, a dict as an
\* object, a list as an array, an int as a number, a str as a string.
json_dumps(snapshot) ==
    [k \in DOMAIN snapshot |->
        CASE k \in OptionalKeys ->
                 (IF snapshot[k] = None THEN [t |-> "null"]
                  ELSE [t |-> "object", v |-> snapshot[k][1]])
          [] k \in ArrayKeys  -> [t |-> "array", v |-> snapshot[k]]
          [] k \in NumberKeys -> [t |-> "number", v |-> snapshot[k]]
          [] k = "metrics"    -> [t |-> "object", v |-> snapshot[k]]
          [] OTHER            -> [t |-> "string", v |-> snapshot[k]]]

\* json.loads(text) of an object: null is read as None, every other member
\* as the value of its JSON type.
json_loads(members) ==
    [k \in DOMAIN members |->
        CASE members[k].t = "null" -> None
          [] k \in OptionalKeys    -> Some(members[k].v)
          [] OTHER                 -> members[k].v]

\* The file of the key: absent (None) or Some(text).  A text is a JSON
\* object with its members, or a text json.loads does not read as a dict.
JsonObject(members) == [kind |-> "object", members |-> members]

\* FileStateSnapshotStore.save_snapshot: the snapshot is written to a tmp
\* file that then replaces the file of the key; an OSError of the filesystem
\* is caught and logged, and the file stays as it was.  writes counts the
\* save_snapshot calls, saved is the content of the file.
save_snapshot(sv, w, snapshot, io_ok) ==
    [saved  |-> IF io_ok THEN Some(JsonObject(json_dumps(snapshot))) ELSE sv,
     writes |-> w + 1]

\* The try block of load_snapshot: path.read_text raises OSError when the
\* file cannot be read, json.loads raises JSONDecodeError on a text that is
\* not JSON, and a root that is not a dict raises ValueError; else the dict.
read_and_parse(file, io_ok) ==
    IF ~io_ok THEN [error |-> "OSError"]
    ELSE IF file.kind = "garbage" THEN [error |-> "JSONDecodeError"]
    ELSE IF file.kind # "object" THEN [error |-> "ValueError"]
    ELSE [error |-> "", snapshot |-> json_loads(file.members)]

\* The exception classes an exception is an instance of.
ExceptionClasses(error) ==
    IF error = "JSONDecodeError" THEN {"JSONDecodeError", "ValueError", "Exception"}
    ELSE {error, "Exception"}

\* Mutation of load_snapshot_except: only OSError is caught.
load_snapshot_except_os == {"OSError"}

\* except (OSError, ValueError)
load_snapshot_except == {"OSError", "ValueError"}

\* FileStateSnapshotStore.load_snapshot with its way of ending: None when
\* path.is_file() is false or an exception of the try block is caught,
\* the dict read when there is none; raised when an exception is not caught.
load_snapshot_outcome(sv, io_ok) ==
    IF sv = None THEN [raised |-> FALSE, snapshot |-> None]
    ELSE \* one read of the file
         LET r == read_and_parse(sv[1], io_ok)
         IN  IF r.error = "" THEN [raised |-> FALSE, snapshot |-> Some(r.snapshot)]
             ELSE [raised |-> ExceptionClasses(r.error) \cap load_snapshot_except = {},
                   snapshot |-> None]

\* What load_snapshot returns.
load_snapshot(sv, io_ok) == load_snapshot_outcome(sv, io_ok).snapshot

\* The body of apply_state_snapshot: the sections of the symbol are
\* overwritten from the snapshot; market, indicators and decision only when
\* the snapshot has them, metrics only when not empty, the lists always
\* (missing or null: []).
RestoredSections(ctx, snapshot) ==
    LET market     == Get(snapshot, "market", None)
        indicators == Get(snapshot, "indicators", None)
        dec        == Get(snapshot, "decision", None)
        metrics    == Get(snapshot, "metrics", EmptyDict)
    IN  [ctx EXCEPT
            !.market             = IF market # None THEN market[1] ELSE @,
            !.indicators         = IF indicators # None THEN indicators ELSE @,
            !.indicators_history = Get(snapshot, "indicators_history", <<>>),
            !.intents            = Some(Get(snapshot, "intents", <<>>)),
            !.intents_history    = Get(snapshot, "intents_history", <<>>),
            !.decisions          = IF dec # None THEN dec ELSE @,
            !.decisions_history  = Get(snapshot, "decisions_history", <<>>),
            !.metrics            = IF DOMAIN metrics # {} THEN metrics ELSE @]

\* Mutation of apply_state_snapshot: the restore also resets the price and
\* ticker histories of the indicator engine.
apply_state_snapshot_wide(ctx, snapshot) ==
    [RestoredSections(ctx, snapshot) EXCEPT !.price_history = <<>>, !.ticker_history = <<>>]

\* Mutation of apply_state_snapshot: the restore leaves the decision of the
\* symbol as it finds it.
apply_state_snapshot_no_decision(ctx, snapshot) ==
    [RestoredSections(ctx, snapshot) EXCEPT !.decisions = ctx.decisions]

\* apply_state_snapshot(context, symbol=symbol, snapshot=snapshot)
apply_state_snapshot(ctx, snapshot) == RestoredSections(ctx, snapshot)

\* Mutation of SnapshotIsFalsy: only a missing snapshot is skipped.
SnapshotIsNone(loaded) == loaded = None

\* `if not snapshot`: None or an empty dict
SnapshotIsFalsy(loaded) == loaded = None \/ DOMAIN loaded[1] = {}

\* int(snapshot.get("tick_id") or 0)
LoadedTickId(snapshot) == IF "tick_id" \in DOMAIN snapshot THEN snapshot.tick_id ELSE 0

\* StateSnapshotService.load: the start tick id, the context after it and
\* whether apply_state_snapshot was called.
load(ctx, sv, io_ok) ==
    LET snapshot == load_snapshot(sv, io_ok)
    IN  IF load_snapshot_outcome(sv, io_ok).raised
        THEN [context |-> ctx, result |-> 0, applied |-> FALSE, raised |-> TRUE]
        ELSE IF SnapshotIsFalsy(snapshot)
        THEN [context |-> ctx, result |-> 0, applied |-> FALSE, raised |-> FALSE]
        ELSE [context |-> apply_state_snapshot(ctx, snapshot[1]),
              result  |-> LoadedTickId(snapshot[1]),
              applied |-> TRUE,
              raised  |-> FALSE]

\* StateSnapshotService.maybe_save.  built tells whether make_state_snapshot
\* returned a snapshot, raised whether the call ended by raising.
maybe_save(ctx, cf, tid, sv, w, io_ok) ==
    LET interval == cf.snap
        idle     == [saved |-> sv, writes |-> w, built |-> FALSE, raised |-> FALSE]
    IN  IF interval <= 0 THEN idle
        ELSE IF tid % interval # 0 THEN idle
        ELSE IF ~CallBinds({"symbol", "tick_id"}, make_state_snapshot_params)
        THEN [idle EXCEPT !.raised = TRUE]
        ELSE LET snapshot == make_state_snapshot(ctx, tid)
                 w2       == save_snapshot(sv, w, snapshot, io_ok)
             IN  [saved |-> w2.saved, writes |-> w2.writes, built |-> TRUE, raised |-> FALSE]

-----------------------------------------------------------------------------
(* SpecPipeline: process_tick and maybe_save called directly on a built
   context (pc = "service"), and the loop of _run_realtime_core over a
   ticker stream (pc = "loop", then "raised" or "ended"). *)

InitPipeline ==
    /\ \E sn \in 0..MaxInterval, st \in 0..MaxStart, hc \in BOOLEAN, r \in RiskValues :
         /\ cfg = [DefaultCfg EXCEPT !.snap = sn, !.start = st, !.hasCache = hc]
         /\ context = [init_context EXCEPT !.risk = r]
         /\ tick_id = st
    /\ pc \in {"service", "loop", "core", "demo_boot"}
    /\ cache = InMemoryMarketCache_init
    /\ store = InMemoryIndicatorStore_init
    /\ saved = None
    /\ writes = 0
    /\ intents = <<>>
    /\ decision = None
    /\ obs = NoObs
    /\ appended = NoAppends
    /\ worker = NoWorker

\* pipeline.process_tick(context, symbol=..., tick_id=t, price=..., ts=...)
ProcessTick ==
    /\ pc = "service"
    /\ \E t \in 1..MaxTickId, price \in PriceValues, ts \in 1..MaxTs :
         \E r \in {process_tick(context, cache, store, cfg, t, price, ts)} :
             /\ context' = r.context
             /\ cache' = r.cache
             /\ store' = r.store
             /\ tick_id' = t
             /\ obs' = [op |-> "process_tick", tick_id |-> t, price |-> price, ts |-> ts,
                        stages |-> r.stages, executed |-> r.executed, raised |-> r.raised,
                        history_before |-> <<Len(context.intents_history),
                                             Len(context.decisions_history)>>]
    /\ UNCHANGED <<cfg, saved, writes, pc, intents, decision, appended, worker>>

\* process_tick with evaluate_strategies replaced by a stub that returns
\* its, as the unit tests of the service patch it.
process_tick_with_intents(ctx, c, st, cf, tid, price, ts, its) ==
    LET r == AfterMarketUpdate(update_market_state(ctx, c, cf, price, ts), st)
    IN  IF ~CallBinds({"tick_id", "symbol", "price"}, compute_indicators_params) THEN Raise(r)
        ELSE process_tick_intents(
                 Ran([WithIndicators(r, compute_indicators(r.context, r.store, cf, tid, price))
                         EXCEPT !.context = record_intents(@, its, cf)],
                     "StrategyEvaluate"),
                 its, cf, tid)

\* pipeline.process_tick(...) while evaluate_strategies is a stub whose
\* intents carry amounts.
ProcessTickStubbed ==
    /\ pc = "service"
    /\ \E t \in 1..MaxTs, price \in PriceValues,
          its \in UNION {[1..n -> {[action |-> "HOLD", reason |-> "no_signal"]}
                                     \cup {[action |-> "BUY", reason |-> "signal",
                                            params |-> [amount |-> Num(a)]] : a \in 0..1}]
                         : n \in 1..2} :
         \E r \in {process_tick_with_intents(context, cache, store, cfg, t, price, t, its)} :
             /\ context' = r.context
             /\ cache' = r.cache
             /\ store' = r.store
             /\ tick_id' = t
             /\ obs' = [op |-> "process_tick_stubbed", tick_id |-> t, intents |-> its,
                        stages |-> r.stages, executed |-> r.executed, raised |-> r.raised]
    /\ UNCHANGED <<cfg, saved, writes, pc, intents, decision, appended, worker>>

\* snapshot_svc.maybe_save(context, tick_id=t)
MaybeSave ==
    /\ pc = "service"
    /\ \E t \in 0..MaxTickId, io_ok \in BOOLEAN :
         \E r \in {maybe_save(context, cfg, t, saved, writes, io_ok)} :
             /\ saved' = r.saved
             /\ writes' = r.writes
             /\ tick_id' = t
             /\ obs' = [op |-> "maybe_save", tick_id |-> t, built |-> r.built,
                        raised |-> r.raised, writes_before |-> writes,
                        io_ok |-> io_ok, saved_before |-> saved]
    /\ UNCHANGED <<cfg, context, cache, store, pc, intents, decision, appended, worker>>

\* Mutation of LoopSave: maybe_save is called whether or not process_tick
\* raised (as from a finally clause).
LoopSaveAlways(r, cf, tid, sv, w, io_ok) ==
    [called |-> TRUE] @@ maybe_save(r.context, cf, tid, sv, w, io_ok)

\* maybe_save as the loop reaches it: skipped when process_tick raised.
LoopSave(r, cf, tid, sv, w, io_ok) ==
    IF r.raised
    THEN [saved |-> sv, writes |-> w, built |-> FALSE, raised |-> FALSE, called |-> FALSE]
    ELSE [called |-> TRUE] @@ maybe_save(r.context, cf, tid, sv, w, io_ok)

\* One pass of `async for ticker in tick_source.stream()`: tick_id += 1,
\* process_tick, then maybe_save; an exception of either leaves the loop.
LoopTick ==
    /\ pc = "loop"
    /\ tick_id - cfg.start < MaxTicks
    /\ \E price \in PriceValues, ts \in 1..MaxTs, io_ok \in BOOLEAN :
         \E r \in {process_tick(context, cache, store, cfg, tick_id + 1, price, ts)} :
           \E sv \in {LoopSave(r, cfg, tick_id + 1, saved, writes, io_ok)} :
             /\ tick_id' = tick_id + 1
             /\ context' = r.context
             /\ cache' = r.cache
             /\ store' = r.store
             /\ saved' = sv.saved
             /\ writes' = sv.writes
             /\ pc' = IF r.raised \/ sv.raised THEN "raised" ELSE "loop"
             /\ obs' = [op |-> "process_tick", tick_id |-> tick_id + 1, price |-> price,
                        ts |-> ts, stages |-> r.stages, executed |-> r.executed,
                        raised |-> r.raised, save_called |-> sv.called,
                        save_raised |-> sv.raised, writes_before |-> writes,
                        history_before |-> <<Len(context.intents_history),
                                             Len(context.decisions_history)>>]
    /\ UNCHANGED <<cfg, intents, decision, appended, worker>>

\* Mutation of core_calls: maybe_save is handed the tick id of the previous
\* pass.
core_calls_stale_id(tid, returned) ==
    <<[fn |-> "process_tick", tick_id |-> tid]>>
        \o (IF returned THEN <<[fn |-> "maybe_save", tick_id |-> tid - 1]>> ELSE <<>>)

\* The calls one pass of the loop body makes on the pipeline and the snapshot
\* service it was given: pipeline.process_tick(..., tick_id=tick_id, ...) and,
\* once that returned, snapshot_svc.maybe_save(context, tick_id=tick_id).
core_calls(tid, returned) ==
    <<[fn |-> "process_tick", tick_id |-> tid]>>
        \o (IF returned THEN <<[fn |-> "maybe_save", tick_id |-> tid]>> ELSE <<>>)

\* One pass of the loop of _run_realtime_core (and of run_demo_offline) as
\* seen by the collaborators passed to it, which record their calls:
\* tick_id += 1, process_tick, maybe_save; either call may raise, and an
\* exception leaves the loop.
CoreTick ==
    /\ pc = "core"
    /\ tick_id - cfg.start < MaxTicks
    /\ \E returned \in BOOLEAN, saved_ok \in BOOLEAN :
         /\ tick_id' = tick_id + 1
         /\ obs' = [op |-> "core",
                    calls |-> (IF obs.op = "core" THEN obs.calls ELSE <<>>)
                                  \o core_calls(tick_id + 1, returned),
                    returned |-> returned, saved_ok |-> (returned /\ saved_ok)]
         /\ pc' = IF returned /\ saved_ok THEN "core" ELSE "core_raised"
    /\ UNCHANGED <<cfg, context, cache, store, saved, writes, intents, decision, appended, worker>>

\* Iterating a str yields its one-character strs (a str is kept as the
\* tuple of its characters).
Chars(text) == [i \in 1..Len(text) |-> <<text[i]>>]

\* generate_ticks(symbols, max_ticks, sleep_sec): for _ in range(1,
\* max_ticks + 1): for s in symbols: yield {"symbol": s, "price": ..., "ts":
\* ...}.  The prices are a random walk and are drawn where a tick is used.
generate_ticks(symbols, max_ticks) ==
    [i \in 1..(max_ticks * Len(symbols)) |-> [symbol |-> symbols[((i - 1) % Len(symbols)) + 1]]]

\* update_orderflow_from_tick on the cache of the tick's symbol: a book of
\* min(depth, 10) levels a spread apart (the spread is 0.01 for the prices
\* used here), one trade and one bar.
update_orderflow_from_tick(c, cf, symbol, price, ts) ==
    LET levels == Min(cf.depth, 10)
        orderbook == [ symbol |-> symbol,
                       bids |-> [i \in 1..levels |-> <<Frac(100 * price - i, 100), i>>],
                       asks |-> [i \in 1..levels |-> <<Frac(100 * price + i, 100), i>>],
                       timestamp |-> ts ]
        trade == [symbol |-> symbol, price |-> price, amount |-> 1, timestamp |-> ts]
        bar == [symbol |-> symbol, timestamp |-> ts, open |-> price, high |-> price,
                low |-> price, close |-> price, volume |-> 1]
    IN  add_bar(add_trade(update_orderbook(c, orderbook, cf), trade, cf), bar, cf)

\* run_demo_offline up to the loop: cfg = load_config(symbol=symbol) (which
\* validates max_ticks > 0), the
\* context and its cache for cfg.symbol, the recording pipeline and snapshot
\* service, and generate_ticks(cfg.symbol, max_ticks=cfg.max_ticks, ...).
DemoStart ==
    /\ pc = "demo_boot"
    /\ \E symbol \in { <<"B", "T", "C", "/", "U", "S", "D", "T">>, <<"X">> },
          max_ticks \in 1..MaxTicks :
         /\ obs' = [op |-> "demo", symbol |-> symbol, max_ticks |-> max_ticks,
                    stream |-> generate_ticks(Chars(symbol), max_ticks),
                    calls |-> <<>>, symbols |-> <<>>]
         /\ pc' = "demo"
    /\ UNCHANGED <<cfg, context, cache, store, saved, writes, tick_id, intents, decision, appended, worker>>

\* One pass of `for tick in generate_ticks(...)`: tick_id += 1, symbol =
\* tick["symbol"], update_orderflow_from_tick (a no-op without a cache for
\* that symbol), process_tick, maybe_save; the loop ends when the generator
\* is exhausted.
DemoTick ==
    /\ pc = "demo"
    /\ \E price \in PriceValues, returned \in BOOLEAN, saved_ok \in BOOLEAN :
         LET pos  == Len(obs.symbols) + 1
             tick == obs.stream[pos]
         IN  /\ tick_id' = tick_id + 1
             /\ cache' = IF cfg.hasCache /\ tick.symbol = obs.symbol
                          THEN update_orderflow_from_tick(cache, cfg, tick.symbol, price, tick_id + 1)
                          ELSE cache
             /\ obs' = [obs EXCEPT !.calls = @ \o core_calls(tick_id + 1, returned),
                                   !.symbols = Append(@, tick.symbol)]
             /\ pc' = IF ~(returned /\ saved_ok) THEN "demo_raised"
                      ELSE IF pos = Len(obs.stream) THEN "demo_ended" ELSE "demo"
    /\ UNCHANGED <<cfg, context, store, saved, writes, intents, decision, appended, worker>>

\* The ticker stream is exhausted: the loop ends and the summary is logged.
StreamEnd ==
    /\ pc \in {"loop", "core"}
    /\ pc' = "ended"
    /\ obs' = [op |-> "stream_end",
               calls |-> (IF obs.op = "core" THEN obs.calls ELSE <<>>),
               core |-> (pc = "core")]
    /\ UNCHANGED <<cfg, context, cache, store, saved, writes, tick_id, intents, decision, appended, worker>>

NextPipeline ==
    ProcessTick \/ ProcessTickStubbed \/ MaybeSave \/ LoopTick \/ CoreTick \/ DemoStart \/ DemoTick \/ StreamEnd

SpecPipeline == InitPipeline /\ [][NextPipeline]_vars

-----------------------------------------------------------------------------
(* SpecSnapshot: the state functions, the snapshot store and the snapshot
   service called directly on a context, the way the unit tests call them,
   and the start of a run (fresh context, then load).  pc = "snapshots";
   with pc = "stages" only ticks are applied to the fresh context.
   obs keeps, besides the last operation, the number of operations made
   (steps) and the context of the last snapshot that reached the file
   (origin). *)

\* Files found under the key when a run starts: none, the empty object, a
\* text that is not JSON, a JSON array, and a document with a "tick_id".
StartFiles ==
    { None,
      Some(JsonObject(EmptyDict)),
      Some([kind |-> "garbage"]),
      Some([kind |-> "array"]),
      Some(JsonObject([tick_id |-> [t |-> "number", v |-> 3],
                       metrics |-> [t |-> "object", v |-> [trades |-> 1]]])) }

InitSnapshot ==
    /\ \/ /\ pc = "snapshots"
          /\ cfg = DefaultCfg
          /\ saved \in StartFiles
       \/ /\ pc = "stages"
          /\ \E w \in 0..MaxCap, hp \in BOOLEAN :
               cfg = [DefaultCfg EXCEPT !.window = w, !.hasPair = hp]
          /\ saved = None
    /\ context = init_context
    /\ cache = InMemoryMarketCache_init
    /\ store = InMemoryIndicatorStore_init
    /\ writes = 0
    /\ tick_id = 0
    /\ intents = <<>>
    /\ decision = None
    /\ obs = [op |-> "none", steps |-> 0, origin |-> None]
    /\ appended = NoAppends
    /\ worker = NoWorker

\* The bookkeeping fields of obs after one more operation.
Step(o, origin) == [steps |-> o.steps + 1, origin |-> origin]

\* One tick applied with the stage functions called directly:
\* update_market_state, compute_indicators(ticker_id=...), record_intents,
\* decide and record_decision, update_metrics.
StagesOfTick(ctx, c, st, cf, tid, price, ts) ==
    LET m   == update_market_state(ctx, c, cf, price, ts)
        ind == compute_indicators(m.context, st, cf, tid, price)
        its == evaluate_strategies(tid)
        c3  == record_intents(ind.context, its, cf)
        c4  == record_decision(c3, decide(its, c3), cf)
    IN  [context |-> update_metrics(c4, tid), cache |-> m.cache, store |-> ind.store]

BuildTick ==
    /\ pc \in {"snapshots", "stages"}
    /\ obs.steps < MaxSteps
    /\ \E price \in PriceValues, ts \in {tick_id + 1} :
         \E r \in {StagesOfTick(context, cache, store, cfg, tick_id + 1, price, ts)} :
             /\ context' = r.context
             /\ cache' = r.cache
             /\ store' = r.store
             /\ tick_id' = tick_id + 1
             /\ obs' = [op |-> "tick"] @@ Step(obs, obs.origin)
    /\ UNCHANGED <<cfg, saved, writes, pc, intents, decision, appended, worker>>

\* pipeline.process_tick(context, symbol=..., tick_id=tick_id + 1, ...)
SnapProcessTick ==
    /\ pc = "snapshots"
    /\ obs.steps < MaxSteps
    /\ \E price \in PriceValues, ts \in {tick_id + 1} :
         \E r \in {process_tick(context, cache, store, cfg, tick_id + 1, price, ts)} :
             /\ context' = r.context
             /\ cache' = r.cache
             /\ store' = r.store
             /\ tick_id' = tick_id + 1
             /\ obs' = [op |-> "process_tick", raised |-> r.raised] @@ Step(obs, obs.origin)
    /\ UNCHANGED <<cfg, saved, writes, pc, intents, decision, appended, worker>>

\* snapshot = make_state_snapshot(context, symbol=symbol, ticker_id=tick_id)
\* store.save_snapshot(key, snapshot)
SaveSnapshot ==
    /\ pc = "snapshots"
    /\ obs.steps < MaxSteps
    /\ \E io_ok \in BOOLEAN :
         \E snapshot \in {make_state_snapshot(context, tick_id)} :
           \E r \in {save_snapshot(saved, writes, snapshot, io_ok)} :
             /\ saved' = r.saved
             /\ writes' = r.writes
             /\ obs' = [op |-> "save_snapshot", snapshot |-> snapshot, io_ok |-> io_ok,
                        ticker_id |-> tick_id, context_before |-> context]
                       @@ Step(obs, IF io_ok THEN Some(context) ELSE obs.origin)
    /\ UNCHANGED <<cfg, context, cache, store, tick_id, pc, intents, decision, appended, worker>>

\* snapshot_svc.load(context) on the context as it is
Load ==
    /\ pc = "snapshots"
    /\ obs.steps < MaxSteps
    /\ \E io_ok \in BOOLEAN :
         \E r \in {load(context, saved, io_ok)} :
             /\ context' = r.context
             /\ tick_id' = r.result
             /\ obs' = [op |-> "load", fresh |-> FALSE, result |-> r.result,
                        applied |-> r.applied, found |-> load_snapshot(saved, io_ok),
                        raised |-> r.raised, io_ok |-> io_ok,
                        context_before |-> context, cache_before |-> cache,
                        store_before |-> store, cfg_before |-> cfg]
                       @@ Step(obs, obs.origin)
    /\ UNCHANGED <<cfg, cache, store, saved, writes, pc, intents, decision, appended, worker>>

\* The start of a run: context = init_context(cfg), build_context, then
\* tick_id = snapshot_svc.load(context).
Startup ==
    /\ pc = "snapshots"
    /\ obs.steps < MaxSteps
    /\ \E io_ok \in BOOLEAN :
         \E r \in {load(init_context, saved, io_ok)} :
             /\ context' = r.context
             /\ cache' = InMemoryMarketCache_init
             /\ store' = InMemoryIndicatorStore_init
             /\ tick_id' = r.result
             /\ obs' = [op |-> "load", fresh |-> TRUE, result |-> r.result,
                        applied |-> r.applied, found |-> load_snapshot(saved, io_ok),
                        raised |-> r.raised, io_ok |-> io_ok,
                        context_before |-> init_context,
                        cache_before |-> InMemoryMarketCache_init,
                        store_before |-> InMemoryIndicatorStore_init, cfg_before |-> cfg]
                       @@ Step(obs, obs.origin)
    /\ UNCHANGED <<cfg, saved, writes, pc, intents, decision, appended, worker>>

NextSnapshot == BuildTick \/ SnapProcessTick \/ SaveSnapshot \/ Load \/ Startup

SpecSnapshot == InitSnapshot /\ [][NextSnapshot]_vars

-----------------------------------------------------------------------------
(* order_book_refresh_worker: application/workers/order_book_refresh_worker.py

   The worker is a coroutine; what it runs between two awaits is one step.
   worker.pc is its position: "created" (task made, not yet run), "fetching"
   (suspended in await connector.fetch_order_book), "sleeping" (suspended in
   await asyncio.sleep), "returned", "failed" (ended by an exception) and
   "cancelled".  has_stop tells whether an is_stopped callable was passed
   and stop what it returns now.  trace lists what the worker has done, in
   order; fetched lists the books its fetches returned. *)

Awaiting == {"created", "fetching", "sleeping"}

NewWorker(has_stop, stop) ==
    [ pc |-> "created", has_stop |-> has_stop, stop |-> stop, stop_at_start |-> stop,
      cancel_requested |-> FALSE, cancelled_at |-> "", error |-> "",
      fetches |-> 0, updates |-> 0, sleeps |-> 0, errors |-> 0, stopped_at |-> 0,
      trace |-> <<>>, fetched |-> <<>> ]

\* order_book = await connector.fetch_order_book(symbol): the call is made
\* and the worker is suspended in it.
fetch_order_book_call(w) ==
    [w EXCEPT !.pc = "fetching", !.fetches = @ + 1, !.trace = Append(@, "fetch")]

\* Mutation of loop_top: the loop tests the stop condition before it
\* fetches (while not is_stopped()).
loop_top_checked(w) ==
    IF w.has_stop /\ w.stop THEN [w EXCEPT !.pc = "returned"]
    ELSE fetch_order_book_call(w)

\* while True: the top of the loop goes straight to the fetch.
loop_top(w) == fetch_order_book_call(w)

\* Mutation of stop_check: is_stopped is never consulted, the worker always
\* goes to sleep.
stop_check_ignored(w) ==
    [w EXCEPT !.trace = Append(Append(@, "check"), "sleep"),
              !.pc = "sleeping", !.sleeps = @ + 1]

\* if is_stopped is not None and is_stopped(): break
\* await asyncio.sleep(interval)
stop_check(w) ==
    LET checked == [w EXCEPT !.trace = Append(@, "check")]
    IN  IF w.has_stop /\ w.stop
        THEN [checked EXCEPT !.pc = "returned"]
        ELSE [checked EXCEPT !.pc = "sleeping", !.sleeps = @ + 1,
                             !.trace = Append(@, "sleep")]

\* The fetch returned order_book: market_cache.update_orderbook(order_book),
\* then the stop check, with no await in between.
fetch_returned(w, c, order_book, cf) ==
    [ cache  |-> update_orderbook(c, order_book, cf),
      worker |-> stop_check([w EXCEPT !.updates = @ + 1,
                                      !.fetched = Append(@, order_book),
                                      !.trace = Append(@, "update")]) ]

\* Mutation of fetch_raised: the owner notices the failure and runs the
\* worker again from its start.
fetch_raised_restart(w) ==
    [w EXCEPT !.errors = @ + 1, !.pc = "created"]

\* Mutation of fetch_raised: the error is swallowed and the worker sleeps
\* before it tries again.
fetch_raised_retry(w) ==
    [w EXCEPT !.errors = @ + 1, !.pc = "sleeping", !.sleeps = @ + 1]

\* The fetch raised: nothing in the worker catches it, the coroutine ends.
fetch_raised(w) ==
    [w EXCEPT !.errors = @ + 1, !.pc = "failed", !.error = "fetch"]

\* _run_order_book_refresh_worker: RuntimeError when the context has no
\* market cache for the symbol, else the worker without is_stopped.
run_order_book_refresh_worker(w, cf) ==
    IF ~cf.hasCache THEN [w EXCEPT !.pc = "failed", !.error = "no_cache"]
    ELSE loop_top(w)

\* orderbook_task.cancel(): a task that has not ended is marked; it gets
\* CancelledError at the await it is suspended in.
task_cancel(w) ==
    IF w.pc \in Awaiting THEN [w EXCEPT !.cancel_requested = TRUE] ELSE w

\* The book the connector returns to the n-th fetch: full depth with symbol
\* and timestamp, sides only, or asks only under an empty symbol.
FetchResults(n) ==
    { [symbol |-> "BTC/USDT", bids |-> Side(n, MaxLevels), asks |-> Side(n, MaxLevels),
       timestamp |-> n],
      [bids |-> Side(n, 1), asks |-> Side(n, MaxLevels)],
      [symbol |-> "", asks |-> Side(n, 1), nonce |-> n] }

-----------------------------------------------------------------------------
(* SpecWorker: the worker awaited directly with an is_stopped callable, as
   the unit test does (pc = "direct"), and the worker as the task of
   run_realtime_from_exchange next to the tick loop (pc = "ticks", then
   "finally" once the loop has ended and the task is cancelled, then
   "closed" or "aborted"). *)

\* Caches the worker is started on: new, and with a ticker, a trade and a
\* bar already stored.
WorkerCaches ==
    { InMemoryMarketCache_init,
      add_bar(add_trade(update_ticker(InMemoryMarketCache_init, [last |-> 1, timestamp |-> 1]),
                        1, DefaultCfg), 1, DefaultCfg) }

InitWorker ==
    /\ \/ /\ pc = "direct"
          /\ cfg = DefaultCfg
          /\ \E stop \in BOOLEAN : worker = NewWorker(TRUE, stop)
          /\ cache \in WorkerCaches
       \/ /\ pc \in {"ticks", "core_ticks"}
          /\ cfg = DefaultCfg
          /\ worker = NewWorker(FALSE, FALSE)
          /\ cache = InMemoryMarketCache_init
    /\ context = init_context
    /\ store = InMemoryIndicatorStore_init
    /\ saved = None
    /\ writes = 0
    /\ tick_id = 0
    /\ intents = <<>>
    /\ decision = None
    /\ obs = NoObs
    /\ appended = NoAppends

\* The task runs for the first time, up to its first await.
WorkerStart ==
    /\ worker.pc = "created"
    /\ ~worker.cancel_requested
    /\ worker' = IF pc = "direct" THEN loop_top(worker)
                 ELSE run_order_book_refresh_worker(worker, cfg)
    /\ UNCHANGED <<cfg, context, cache, store, saved, writes, tick_id, pc, intents, decision, obs, appended>>

WorkerFetchReturns ==
    /\ worker.pc = "fetching"
    /\ ~worker.cancel_requested
    /\ \E order_book \in FetchResults(worker.fetches) :
         \E r \in {fetch_returned(worker, cache, order_book, cfg)} :
             /\ cache' = r.cache
             /\ worker' = r.worker
    /\ UNCHANGED <<cfg, context, store, saved, writes, tick_id, pc, intents, decision, obs, appended>>

WorkerFetchRaises ==
    /\ worker.pc = "fetching"
    /\ ~worker.cancel_requested
    /\ worker' = fetch_raised(worker)
    /\ UNCHANGED <<cfg, context, cache, store, saved, writes, tick_id, pc, intents, decision, obs, appended>>

\* asyncio.sleep(interval) is over: the loop starts its next pass.
WorkerSleepEnds ==
    /\ worker.pc = "sleeping"
    /\ ~worker.cancel_requested
    /\ \/ worker.fetches < MaxFetches
       \/ worker.has_stop /\ worker.stop /\ worker.fetches <= worker.stopped_at
    /\ worker' = loop_top(worker)
    /\ UNCHANGED <<cfg, context, cache, store, saved, writes, tick_id, pc, intents, decision, obs, appended>>

\* CancelledError is raised in the worker at the await it is suspended in.
WorkerCancelled ==
    /\ worker.pc \in Awaiting
    /\ worker.cancel_requested
    /\ worker' = [worker EXCEPT !.pc = "cancelled", !.cancelled_at = worker.pc]
    /\ UNCHANGED <<cfg, context, cache, store, saved, writes, tick_id, pc, intents, decision, obs, appended>>

\* The owner of the is_stopped callable raises the stop condition.
SetStop ==
    /\ pc = "direct"
    /\ worker.has_stop
    /\ ~worker.stop
    /\ worker.pc \in Awaiting
    /\ worker' = [worker EXCEPT !.stop = TRUE, !.stopped_at = worker.updates]
    /\ UNCHANGED <<cfg, context, cache, store, saved, writes, tick_id, pc, intents, decision, obs, appended>>

\* One pass of the tick loop of _run_realtime_core while the worker is a
\* task; an exception of process_tick or maybe_save leaves the loop and
\* reaches the finally of run_realtime_from_exchange: orderbook_task.cancel().
MainTick ==
    /\ pc = "ticks"
    /\ tick_id < MaxTicks
    /\ \E price \in PriceValues, ts \in 1..MaxTs, io_ok \in BOOLEAN :
         \E r \in {process_tick(context, cache, store, cfg, tick_id + 1, price, ts)} :
           \E sv \in {LoopSave(r, cfg, tick_id + 1, saved, writes, io_ok)} :
             /\ tick_id' = tick_id + 1
             /\ context' = r.context
             /\ cache' = r.cache
             /\ store' = r.store
             /\ saved' = sv.saved
             /\ writes' = sv.writes
             /\ pc' = IF r.raised \/ sv.raised THEN "finally" ELSE "ticks"
             /\ worker' = IF r.raised \/ sv.raised THEN task_cancel(worker) ELSE worker
             /\ obs' = [op |-> "process_tick", tick_id |-> tick_id + 1, raised |-> r.raised,
                        ticks |-> (IF obs.op = "process_tick" THEN obs.ticks ELSE <<>>)
                                      \o <<[price |-> price, ts |-> ts, io_ok |-> io_ok]>>]
    /\ UNCHANGED <<cfg, intents, decision, appended>>

\* One pass of the tick loop while the worker is a task, with the pipeline
\* and the snapshot service as the recording collaborators of CoreTick.
MainTickCore ==
    /\ pc = "core_ticks"
    /\ tick_id < MaxTicks
    /\ \E returned \in BOOLEAN, saved_ok \in BOOLEAN :
         /\ tick_id' = tick_id + 1
         /\ obs' = [op |-> "core",
                    calls |-> (IF obs.op = "core" THEN obs.calls ELSE <<>>)
                                  \o core_calls(tick_id + 1, returned),
                    returned |-> returned, saved_ok |-> (returned /\ saved_ok),
                    after_failure |-> (IF obs.op = "core" THEN obs.after_failure ELSE 0)
                                          + (IF worker.pc = "failed" THEN 1 ELSE 0)]
         /\ pc' = IF returned /\ saved_ok THEN "core_ticks" ELSE "finally"
         /\ worker' = IF returned /\ saved_ok THEN worker ELSE task_cancel(worker)
    /\ UNCHANGED <<cfg, context, cache, store, saved, writes, intents, decision, appended>>

\* The ticker stream ends or fails: finally, orderbook_task.cancel().
MainStreamEnds ==
    /\ pc \in {"ticks", "core_ticks"}
    /\ pc' = "finally"
    /\ worker' = task_cancel(worker)
    /\ obs' = [op |-> "stream_end"]
    /\ UNCHANGED <<cfg, context, cache, store, saved, writes, tick_id, intents, decision, appended>>

\* await orderbook_task in the finally: CancelledError is passed over and
\* the connector is closed; the exception of a failed worker is raised
\* again and connector.close() is not reached.
MainAwaitsTask ==
    /\ pc = "finally"
    /\ worker.pc \notin Awaiting
    /\ pc' = IF worker.pc = "failed" THEN "aborted" ELSE "closed"
    /\ obs' = [op |-> "await_task", connector_closed |-> worker.pc # "failed"]
    /\ UNCHANGED <<cfg, context, cache, store, saved, writes, tick_id, intents, decision, appended, worker>>

NextWorker ==
    \/ WorkerStart \/ WorkerFetchReturns \/ WorkerFetchRaises \/ WorkerSleepEnds
    \/ WorkerCancelled \/ SetStop \/ MainTick \/ MainTickCore \/ MainStreamEnds
    \/ MainAwaitsTask

SpecWorker == InitWorker /\ [][NextWorker]_vars

\* The event loop resumes a task whose await has completed: a created task
\* is run, a fetch in flight ends (by returning or by raising), a sleep ends.
SpecWorkerLive ==
    /\ SpecWorker
    /\ WF_vars(WorkerStart)
    /\ WF_vars(WorkerFetchReturns \/ WorkerFetchRaises)
    /\ WF_vars(WorkerSleepEnds)

-----------------------------------------------------------------------------
(* load_config and AppConfig.validate: config/config.py

   The value of an environment variable is None (not set) or Some(text),
   a text being a tuple of characters. *)

DigitValue ==
    [c \in {"0", "1", "2", "3", "4", "5", "6", "7", "8", "9"} |->
        CASE c = "0" -> 0 [] c = "1" -> 1 [] c = "2" -> 2 [] c = "3" -> 3 [] c = "4" -> 4
          [] c = "5" -> 5 [] c = "6" -> 6 [] c = "7" -> 7 [] c = "8" -> 8 [] OTHER -> 9]

\* text.strip() for blanks.
RECURSIVE Strip(_)
Strip(text) ==
    IF text # <<>> /\ text[1] = " " THEN Strip(Tail(text))
    ELSE IF text # <<>> /\ text[Len(text)] = " " THEN Strip(SubSeq(text, 1, Len(text) - 1))
    ELSE text

RECURSIVE DecimalValue(_)
DecimalValue(digits) ==
    IF digits = <<>> THEN 0
    ELSE 10 * DecimalValue(SubSeq(digits, 1, Len(digits) - 1))
         + DigitValue[digits[Len(digits)]]

\* int(value): surrounding blanks are dropped, then an optional sign and at
\* least one decimal digit; anything else raises ValueError.
int(text) ==
    LET t      == Strip(text)
        signed == t # <<>> /\ t[1] \in {"-", "+"}
        body   == IF signed THEN Tail(t) ELSE t
    IN  IF body = <<>> \/ \E i \in 1..Len(body) : body[i] \notin DOMAIN DigitValue
        THEN [raised |-> TRUE]
        ELSE [raised |-> FALSE,
              value  |-> IF signed /\ t[1] = "-" THEN 0 - DecimalValue(body)
                         ELSE DecimalValue(body)]

\* _parse_int(value, default): the default for an unset or empty variable,
\* else int(value); ValueError for a text that is not an integer.
parse_int(value, default) ==
    IF value = None \/ value = Some(<<>>) THEN [raised |-> FALSE, value |-> default]
    ELSE int(value[1])

\* Mutation of validate: the order of the three intervals is not tested.
validate_no_order(c) ==
    \/ c.fast < 1
    \/ c.medium < 1
    \/ c.heavy < 1
    \/ c.snap < 0

\* AppConfig.validate raises ValueError (TRUE) or returns (FALSE); max_ticks,
\* tick_sleep_sec and order_book_refresh_interval_seconds keep their valid
\* defaults here.
validate(c) ==
    \/ c.fast < 1
    \/ c.medium < 1
    \/ c.heavy < 1
    \/ c.medium < c.fast
    \/ c.heavy < c.medium
    \/ c.snap < 0

\* load_config: the defaults of AppConfig overridden by INDICATOR_FAST_INTERVAL,
\* INDICATOR_MEDIUM_INTERVAL, INDICATOR_HEAVY_INTERVAL and
\* STATE_SNAPSHOT_INTERVAL_TICKS, then base.validate(); raised tells that the
\* call ended by ValueError, else config is the AppConfig returned.
load_config(env) ==
    LET fast   == parse_int(env.fast, DefaultCfg.fast)
        medium == parse_int(env.medium, DefaultCfg.medium)
        heavy  == parse_int(env.heavy, DefaultCfg.heavy)
        snap   == parse_int(env.snap, DefaultSnapshotInterval)
    IN  IF fast.raised \/ medium.raised \/ heavy.raised \/ snap.raised
        THEN [raised |-> TRUE, parsed |-> FALSE]
        ELSE LET base == [DefaultCfg EXCEPT !.fast = fast.value, !.medium = medium.value,
                                            !.heavy = heavy.value, !.snap = snap.value]
             IN  IF validate(base)
                 THEN [raised |-> TRUE, parsed |-> TRUE, base |-> base]
                 ELSE [raised |-> FALSE, parsed |-> TRUE, base |-> base, config |-> base]

\* Values an interval variable is given: unset, empty, integers in several
\* spellings, and texts that are no integers.
IntervalTexts ==
    { None, Some(<<>>), Some(<<"0">>), Some(<<"1">>), Some(<<"2">>), Some(<<"-", "1">>),
      Some(<<" ", "4", " ">>), Some(<<"1", "0">>), Some(<<"x">>), Some(<<"2", ".", "5">>) }

-----------------------------------------------------------------------------
(* SpecConfig: the start of a run: load_config (pc = "boot"), then, when it
   returned, init_context and build_context (pc = "configured"), then the
   first tick (pc = "built"); pc = "config_error" when load_config raised. *)

InitConfig ==
    /\ pc = "boot"
    /\ cfg = DefaultCfg
    /\ context = EmptyDict
    /\ cache = InMemoryMarketCache_init
    /\ store = InMemoryIndicatorStore_init
    /\ saved = None
    /\ writes = 0
    /\ tick_id = 0
    /\ intents = <<>>
    /\ decision = None
    /\ obs = NoObs
    /\ appended = NoAppends
    /\ worker = NoWorker

\* cfg = load_config(symbol=symbol)
LoadConfig ==
    /\ pc = "boot"
    /\ \E f \in IntervalTexts, m \in IntervalTexts, h \in IntervalTexts,
          sn \in {None, Some(<<"-", "1">>), Some(<<"0">>)} :
         \E env \in {[fast |-> f, medium |-> m, heavy |-> h, snap |-> sn]} :
           \E r \in {load_config(env)} :
             /\ pc' = IF r.raised THEN "config_error" ELSE "configured"
             /\ cfg' = IF r.raised THEN cfg ELSE r.config
             /\ obs' = [op |-> "load_config", env |-> env, raised |-> r.raised,
                        parsed |-> r.parsed,
                        requested |-> IF r.parsed THEN Some(r.base) ELSE None]
    /\ UNCHANGED <<context, cache, store, saved, writes, tick_id, intents, decision, appended, worker>>

\* context = init_context(cfg); context = build_context(cfg, context, ...)
BuildContext ==
    /\ pc = "configured"
    /\ pc' = "built"
    /\ context' = init_context
    /\ UNCHANGED <<cfg, cache, store, saved, writes, tick_id, intents, decision, obs, appended, worker>>

\* The first tick of the run.
FirstTick ==
    /\ pc = "built"
    /\ \E price \in PriceValues :
         \E r \in {process_tick(context, cache, store, cfg, tick_id + 1, price, 1)} :
             /\ context' = r.context
             /\ cache' = r.cache
             /\ store' = r.store
             /\ tick_id' = tick_id + 1
             /\ pc' = "ticked"
    /\ UNCHANGED <<cfg, saved, writes, intents, decision, obs, appended, worker>>

NextConfig == LoadConfig \/ BuildContext \/ FirstTick

SpecConfig == InitConfig /\ [][NextConfig]_vars

-----------------------------------------------------------------------------
(* Claims about decide (SpecDecide) *)

IsHold(it) == "action" \in DOMAIN it /\ it.action = "HOLD"

AllHold(its) == \A j \in 1..Len(its) : IsHold(its[j])

\* The first intent, in list order, whose action is not HOLD.
FirstTrade(its) ==
    its[CHOOSE j \in 1..Len(its) : ~IsHold(its[j]) /\ \A k \in 1..(j - 1) : IsHold(its[k])]

\* The decision repeats the intent: its action, its reason and its params
\* (an intent without reason or params yields "intent" and {}).
SelectedVerbatim(d, c) ==
    /\ DOMAIN d = {"action", "reason", "params"}
    /\ d.action = (IF "action" \in DOMAIN c THEN c.action ELSE "None")
    /\ d.reason = (IF "reason" \in DOMAIN c THEN c.reason ELSE "intent")
    /\ d.params = (IF "params" \in DOMAIN c THEN c.params ELSE EmptyDict)

Downgraded(d) ==
    /\ d.action = "HOLD"
    /\ d.reason = "risk_limit_exceeded"
    /\ "params" \notin DOMAIN d

IsNumeric(x) == x.kind = "num" \/ x.kind = "numstr"

\* The selected intent carries a numeric amount, a numeric max_amount is
\* configured for the symbol, and the amount is strictly above it.
AmountOverLimit(c, ctx) ==
    /\ "params" \in DOMAIN c
    /\ "amount" \in DOMAIN c.params
    /\ IsNumeric(c.params.amount)
    /\ "max_amount" \in DOMAIN ctx.risk
    /\ IsNumeric(ctx.risk.max_amount)
    /\ c.params.amount.v > ctx.risk.max_amount.v

\* C3: decide returns one decision: HOLD / "no_action" when the intent list is
\* empty or all HOLD; otherwise, before the risk check, the action, reason and
\* params of the first non-HOLD intent in list order, whatever follows it.
C3_FirstNonHoldWins ==
    pc = "returned" =>
        LET d == decision[1]
        IN  IF AllHold(intents)
            THEN d.action = "HOLD" /\ d.reason = "no_action" /\ "params" \notin DOMAIN d
            ELSE /\ Downgraded(d) \/ SelectedVerbatim(d, FirstTrade(intents))
                 /\ "max_amount" \notin DOMAIN context.risk
                        => SelectedVerbatim(d, FirstTrade(intents))

C3_Witness ==
    /\ pc = "returned"
    /\ Len(intents) = 3
    /\ IsHold(intents[1])
    /\ Get(intents[2], "action", "None") = "BUY"
    /\ Get(intents[3], "action", "None") = "SELL"
    /\ decision[1].action = "BUY"
    /\ decision[1].reason = intents[2].reason

\* C4: with a numeric amount on the selected intent and a max_amount limit for
\* the symbol, decide downgrades to HOLD / "risk_limit_exceeded" without the
\* params iff amount > max_amount (strictly); with amount <= max_amount, no
\* limit or no amount the selected action, reason and params are unchanged.
C4_RiskLimitStrict ==
    (pc = "returned" /\ ~AllHold(intents)) =>
        LET d == decision[1]
            c == FirstTrade(intents)
        IN  /\ Downgraded(d) <=> AmountOverLimit(c, context)
            /\ ~AmountOverLimit(c, context) => SelectedVerbatim(d, c)

C4_Witness ==
    /\ pc = "returned"
    /\ ~AllHold(intents)
    /\ AmountOverLimit(FirstTrade(intents), context)
    /\ FirstTrade(intents).params.amount.v = context.risk.max_amount.v + 1
    /\ Downgraded(decision[1])

\* C26: every decision returned by decide, HOLD or not, carries the
\* timestamp of the triggering tick: its "ts" is the ts of the market view
\* the Context holds for the symbol at the time of the call.
C26_DecisionCarriesTs ==
    pc = "returned"
        => /\ "ts" \in DOMAIN decision[1]
           /\ decision[1].ts = MarketTs(obs.context_before)

-----------------------------------------------------------------------------
(* Claims about the caches and the indicator stage (SpecCaches) *)

\* stored is the last min(n, capacity) items of the n items of log, in order.
LastOfLog(stored, log, capacity) ==
    /\ Len(stored) = Min(Len(log), capacity)
    /\ \A i \in 1..Len(stored) : stored[i] = log[Len(log) - Len(stored) + i]

\* C5: every bounded FIFO (trades, bars, fast / medium / heavy histories)
\* holds, after n appends, the last min(n, capacity) appended items in their
\* order; an append to a full FIFO raises nothing and evicts exactly the oldest.
C5_BoundedFifo ==
    /\ LastOfLog(cache.trades, appended.trades, cfg.tradeCap)
    /\ LastOfLog(cache.bars, appended.bars, cfg.barCap)
    /\ LastOfLog(store.fast_history, appended.fast, cfg.window)
    /\ LastOfLog(store.medium_history, appended.medium, cfg.window)
    /\ LastOfLog(store.heavy_history, appended.heavy, cfg.window)
    /\ (obs.op = "add_trade" /\ cfg.tradeCap > 0 /\ Len(obs.before.trades) = cfg.tradeCap)
          => cache.trades = Append(Tail(obs.before.trades), obs.item)
    /\ (obs.op = "add_bar" /\ cfg.barCap > 0 /\ Len(obs.before.bars) = cfg.barCap)
          => cache.bars = Append(Tail(obs.before.bars), obs.item)

C5_Witness ==
    /\ obs.op = "add_trade"
    /\ cfg.tradeCap > 0
    /\ Len(obs.before.trades) = cfg.tradeCap
    /\ Len(appended.trades) > cfg.tradeCap + 1
    /\ Head(obs.before.trades) # obs.item
    /\ Len(cache.trades) = cfg.tradeCap

\* C6: after every update_orderbook the stored bids and asks are the first
\* min(len, orderbook_depth) entries of the supplied lists in their order, so
\* both sides never exceed the depth, and the previous book is replaced whole.
C6_OrderbookTrimmed ==
    /\ cache.orderbook # None =>
          /\ Len(cache.orderbook[1].bids) <= cfg.depth
          /\ Len(cache.orderbook[1].asks) <= cfg.depth
    /\ obs.op = "update_orderbook" =>
          LET ob == obs.arg
              b  == cache.orderbook[1]
              sb == IF "bids" \in DOMAIN ob THEN ob.bids ELSE <<>>
              sa == IF "asks" \in DOMAIN ob THEN ob.asks ELSE <<>>
          IN  /\ Len(b.bids) = Min(Len(sb), cfg.depth)
              /\ \A i \in 1..Len(b.bids) : b.bids[i] = sb[i]
              /\ Len(b.asks) = Min(Len(sa), cfg.depth)
              /\ \A i \in 1..Len(b.asks) : b.asks[i] = sa[i]
              /\ DOMAIN b = DOMAIN ob \cup {"symbol", "bids", "asks"}
              /\ \A k \in DOMAIN ob \ {"symbol", "bids", "asks"} : b[k] = ob[k]

C6_Witness ==
    /\ obs.op = "update_orderbook"
    /\ obs.before.orderbook # None
    /\ "timestamp" \in DOMAIN obs.before.orderbook[1]
    /\ "timestamp" \notin DOMAIN cache.orderbook[1]
    /\ cfg.depth > 0
    /\ "bids" \in DOMAIN obs.arg
    /\ Len(obs.arg.bids) > cfg.depth
    /\ Len(cache.orderbook[1].bids) = cfg.depth
    /\ cache.orderbook[1].bids # obs.before.orderbook[1].bids

\* C7: should_update_<cadence>(tickID) is true iff the cadence's interval is
\* > 0 and tickID is a multiple of it; with interval 0 it is always false.
C7_CadencePolicy ==
    obs.op = "should_update" =>
        LET iv == CadenceInterval(cfg, obs.cadence)
        IN  /\ obs.result <=> (iv > 0 /\ \E k \in -MaxTickId..MaxTickId : obs.tick = k * iv)
            /\ iv = 0 => ~obs.result

C7_Witness ==
    /\ obs.op = "should_update"
    /\ CadenceInterval(cfg, obs.cadence) = 2
    /\ obs.tick = 4
    /\ obs.result

CadenceHistory(st, cadence) ==
    CASE cadence = "fast" -> st.fast_history
      [] cadence = "medium" -> st.medium_history
      [] OTHER -> st.heavy_history

Cadences == {"fast", "medium", "heavy"}

\* C8: in the indicator stage of one tick each cadence history receives at
\* most one append, and only if tick_id mod the cadence's interval is 0; a
\* cadence that is not due keeps its history unchanged.
C8_OneAppendPerTick ==
    obs.op = "compute_indicators" =>
        \A c \in Cadences :
            LET iv     == CadenceInterval(cfg, c)
                due    == iv > 0 /\ \E k \in 0..obs.ticker_id : obs.ticker_id = k * iv
                calls  == obs.appends[c]
                before == CadenceHistory(obs.store_before, c)
                now    == CadenceHistory(store, c)
            IN  /\ Len(calls) <= 1
                /\ Len(calls) = 1 => due
                /\ ~due => now = before
                /\ Len(now) <= Len(before) + 1
                /\ now # before =>
                      /\ due
                      /\ now[Len(now)] = obs.price
                      /\ \/ SubSeq(now, 1, Len(now) - 1) = before
                         \/ SubSeq(now, 1, Len(now) - 1) = Tail(before)

C8_Witness ==
    /\ obs.op = "compute_indicators"
    /\ cfg.hasStore
    /\ cfg.medium > 1
    /\ obs.appends.fast = <<obs.price>>
    /\ obs.appends.medium = <<>>
    /\ store.medium_history # <<>>
    /\ store.medium_history = obs.store_before.medium_history
    /\ store.fast_history # obs.store_before.fast_history

\* The prices of the ticks 1..N on which a cadence of interval iv is due,
\* cut to the last `window` of them.
DueHistoryOk(history, prices, iv, window) ==
    LET total == Len(prices) \div iv
        len   == Min(window, total)
    IN  /\ Len(history) = len
        /\ \A i \in 1..Len(history) : history[i] = prices[(total - len + i) * iv]

\* C9: after ticks 1..N with intervals f, m, h >= 1 the fast, medium and heavy
\* histories hold min(window, N div f), min(window, N div m), min(window, N div h)
\* entries, the prices of the due ticks in tick order; with f=1, m=2, h=10 and
\* two ticks: fast has 2 entries, medium 1, heavy none.
C9_HistoriesAfterNTicks ==
    (pc = "indicators" /\ cfg.start = 0 /\ cfg.hasStore
        /\ cfg.fast >= 1 /\ cfg.medium >= 1 /\ cfg.heavy >= 1) =>
        /\ Len(appended.prices) = tick_id
        /\ DueHistoryOk(store.fast_history, appended.prices, cfg.fast, cfg.window)
        /\ DueHistoryOk(store.medium_history, appended.prices, cfg.medium, cfg.window)
        /\ DueHistoryOk(store.heavy_history, appended.prices, cfg.heavy, cfg.window)
        /\ (cfg.fast = 1 /\ cfg.medium = 2 /\ cfg.heavy = 10 /\ tick_id = 2 /\ cfg.window >= 2) =>
              /\ Len(store.fast_history) = 2
              /\ Len(store.medium_history) = 1
              /\ store.heavy_history = <<>>

C9_Witness ==
    /\ pc = "indicators"
    /\ cfg.start = 0
    /\ cfg.hasStore
    /\ cfg.fast = 1 /\ cfg.medium = 2 /\ cfg.heavy = 10
    /\ cfg.window >= 2
    /\ tick_id = 2
    /\ store.fast_history = appended.prices
    /\ store.medium_history = <<appended.prices[2]>>
    /\ appended.prices[1] # appended.prices[2]
    /\ store.heavy_history = <<>>

\* C28: for every stored trade or bar sequence and every limit >= 0,
\* get_trades(limit) and get_bars(limit) return the most recent
\* min(limit, length) entries in chronological order (none for limit 0);
\* with the limit omitted they return all entries; the stored FIFO is not
\* modified.
C28_MostRecentItems ==
    obs.op = "get_items"
        => LET items == cache[obs.fifo]
               n     == IF obs.limit = None THEN Len(items) ELSE Min(obs.limit[1], Len(items))
           IN  /\ obs.result = SubSeq(items, Len(items) - n + 1, Len(items))
               /\ cache = obs.before

\* The indicators defined over the most recent N prices, with N and the
\* cadence that computes them.
WindowedIndicators ==
    { [key |-> "sma_fast_5",    n |-> fast_window,   cadence |-> "fast"],
      [key |-> "sma_7",         n |-> sma_7_window,  cadence |-> "fast"],
      [key |-> "sma_25",        n |-> sma_25_window, cadence |-> "fast"],
      [key |-> "sma_medium_20", n |-> medium_window, cadence |-> "medium"],
      [key |-> "sma_heavy_100", n |-> heavy_window,  cadence |-> "heavy"] }

\* C31: an indicator over the most recent N prices appears in a tick's
\* indicator snapshot only if its cadence is due on that tick and at least N
\* prices have been accumulated in the rolling price history.
C31_WindowedIndicatorNeedsNPrices ==
    obs.op = "compute_indicators" =>
        \A ind \in WindowedIndicators :
            ind.key \in DOMAIN obs.snapshot =>
                /\ cfg.hasStore
                /\ should_update(CadenceInterval(cfg, ind.cadence), obs.ticker_id)
                /\ Len(context.price_history) >= ind.n

-----------------------------------------------------------------------------
(* Claims about process_tick and maybe_save (SpecPipeline) *)

StagesOnHold ==
    <<"MarketUpdate", "IndicatorCompute", "StrategyEvaluate", "DecisionReduce", "MetricsUpdate">>

StagesOnTrade ==
    <<"MarketUpdate", "IndicatorCompute", "StrategyEvaluate", "DecisionReduce", "Execute",
      "MetricsUpdate">>

\* C1: every tick handed to process_tick runs the stages once each in the
\* order MarketUpdate, IndicatorCompute, StrategyEvaluate, DecisionReduce,
\* Execute (only for a non-HOLD action), MetricsUpdate, and the tick is
\* finished before the next one starts.
C1_StagesInOrder ==
    obs.op = "process_tick" =>
        /\ ~obs.raised
        /\ obs.stages \in {StagesOnHold, StagesOnTrade}

\* The decision the tick's own intents reduce to on the updated context.
DecisionOfTick(tid) == decide(evaluate_strategies(tid), context)

\* C2: on every tick execute is called exactly once, with the tick's
\* decision, tick id and symbol, when the decision's action is not HOLD, and
\* not at all when it is HOLD.
C2_ExecuteIffNonHold ==
    obs.op = "process_tick" =>
        LET d == DecisionOfTick(obs.tick_id)
        IN  IF d.action = "HOLD"
            THEN obs.executed = <<>>
            ELSE obs.executed = <<[decision |-> d, tick_id |-> obs.tick_id, symbol |-> OwnSymbol]>>

\* C10: maybe_save(context, tickID) performs exactly one store write if the
\* save interval is > 0 and tickID is a multiple of it, and otherwise performs
\* no write and builds no snapshot; with interval 0 no tickID causes a write.
C10_SaveIffDue ==
    obs.op = "maybe_save" =>
        LET due == cfg.snap > 0 /\ \E k \in 0..obs.tick_id : obs.tick_id = k * cfg.snap
        IN  /\ writes - obs.writes_before = (IF due THEN 1 ELSE 0)
            /\ ~due => ~obs.built
            /\ cfg.snap = 0 => writes = obs.writes_before

\* The stages ran in order up to some stage, and the last one did not run.
StagesCutShort(stages) ==
    /\ Len(stages) < Len(StagesOnHold)
    /\ stages = SubSeq(StagesOnHold, 1, Len(stages))

\* C22: when a stage raises while tick k is processed, the exception leaves
\* process_tick and the tick loop with no retry: the later stages of tick k
\* are not run, maybe_save is not called for tick k (nothing is written),
\* and no tick after k is processed.
C22_FailFast ==
    /\ (obs.op = "process_tick" /\ obs.raised) => StagesCutShort(obs.stages)
    /\ (obs.op = "process_tick" /\ obs.raised /\ pc # "service")
         => /\ pc = "raised"
            /\ ~obs.save_called
            /\ writes = obs.writes_before
    /\ pc = "raised"
         => /\ obs.op = "process_tick"
            /\ obs.raised \/ obs.save_raised
            /\ tick_id = obs.tick_id

\* The loop left by a stage that raised on a tick whose save was due.
C22_Witness ==
    /\ pc = "raised"
    /\ obs.raised
    /\ obs.stages = <<"MarketUpdate">>
    /\ cfg.snap = 1
    /\ tick_id = cfg.start + 1

\* The calls the loop has made after n passes from start: process_tick and
\* maybe_save alternate, both with ids start + 1, start + 2, ...
CallsOfPasses(start, n) ==
    [i \in 1..(2 * n) |->
        IF i % 2 = 1 THEN [fn |-> "process_tick", tick_id |-> start + (i + 1) \div 2]
                     ELSE [fn |-> "maybe_save", tick_id |-> start + i \div 2]]

\* C29: the main tick loop numbers the ticks start + 1, start + 2, ..., calls
\* process_tick exactly once per tick, and calls maybe_save with the same
\* tick id after process_tick has returned and before the next tick is read.
C29_LoopNumbersTicks ==
    (obs.op = "core" \/ (obs.op = "stream_end" /\ obs.core)) =>
        LET n == tick_id - cfg.start
            all == CallsOfPasses(cfg.start, n)
        IN  /\ pc \in {"core", "ended"} => obs.calls = all
            /\ pc = "core_raised" =>
                  obs.calls = (IF obs.returned THEN all ELSE SubSeq(all, 1, 2 * n - 1))

\* Three ticks went through the loop from a restored counter, then the
\* stream ended.
C29_Witness ==
    /\ pc = "ended"
    /\ obs.op = "stream_end"
    /\ cfg.start = 1
    /\ tick_id = 4
    /\ Len(obs.calls) = 6
    /\ obs.calls[6] = [fn |-> "maybe_save", tick_id |-> 4]

\* C30: process_tick for tick k completes, and then the context's current
\* intents and decision are those of tick k, the intents history and the
\* decisions history have each gained exactly one entry, and metrics.ticks
\* is k.
C30_ContextHoldsTick ==
    obs.op = "process_tick" =>
        /\ ~obs.raised
        /\ context.intents = Some(evaluate_strategies(obs.tick_id))
        /\ context.decisions = Some(DecisionOfTick(obs.tick_id))
        /\ Len(context.intents_history) = obs.history_before[1] + 1
        /\ Len(context.decisions_history) = obs.history_before[2] + 1
        /\ context.metrics.ticks = obs.tick_id

\* C32: run_demo_offline with max_ticks = n and symbol S processes exactly n
\* ticks: process_tick is called n times with tick ids start + 1 .. start + n,
\* and every call carries symbol S.
C32_DemoProcessesMaxTicks ==
    pc = "demo_ended" =>
        /\ tick_id = cfg.start + obs.max_ticks
        /\ obs.calls = CallsOfPasses(cfg.start, obs.max_ticks)
        /\ Len(obs.symbols) = obs.max_ticks
        /\ \A i \in 1..Len(obs.symbols) : obs.symbols[i] = obs.symbol

\* C33: on any tick where the first non-HOLD intent carries a numeric amount
\* strictly greater than the max_amount configured for the symbol, execute
\* is not called on that tick and the decision recorded in the context for
\* that tick is HOLD with reason "risk_limit_exceeded".
C33_RiskGateEndToEnd ==
    (/\ obs.op = "process_tick_stubbed"
     /\ ~AllHold(obs.intents)
     /\ AmountOverLimit(FirstTrade(obs.intents), context))
        => /\ obs.executed = <<>>
           /\ context.decisions # None
           /\ Downgraded(context.decisions[1])

-----------------------------------------------------------------------------
(* Claims about the snapshot service and the snapshot functions (SpecSnapshot) *)

\* The file under the key holds no snapshot, or an empty one.
NoSnapshotStored == saved = None \/ saved = Some(JsonObject(EmptyDict))

\* C11: when the store holds no snapshot under the key, or an empty one,
\* load returns 0, does not call the apply function and leaves the Context
\* as it was.
C11_NoSnapshotLoadsZero ==
    (obs.op = "load" /\ NoSnapshotStored)
        => /\ obs.result = 0
           /\ ~obs.applied
           /\ context = obs.context_before

\* A load on a context that ticks have filled, with the empty object stored.
C11_Witness ==
    /\ obs.op = "load"
    /\ saved = Some(JsonObject(EmptyDict))
    /\ obs.context_before # init_context
    /\ obs.result = 0

\* The tick counter a stored snapshot carries: make_state_snapshot writes it
\* under "ticker_id"; other writers of the file may use "tick_id".
PersistedCounter(snapshot) ==
    IF "ticker_id" \in DOMAIN snapshot THEN snapshot.ticker_id
    ELSE Get(snapshot, "tick_id", 0)

\* The load found a snapshot that is not empty.
SnapshotPresent == obs.found # None /\ DOMAIN obs.found[1] # {}

\* C12: when a snapshot is present under the key, load applies it and
\* returns the tick counter persisted in it, so that a snapshot written at
\* tick N makes the run resume from N.
C12_LoadReturnsPersistedCounter ==
    (obs.op = "load" /\ SnapshotPresent)
        => /\ obs.applied
           /\ obs.result = PersistedCounter(obs.found[1])
           /\ tick_id = PersistedCounter(obs.found[1])

\* The sections of the Context a restore may write.
RestoredKeys ==
    {"market", "indicators", "indicators_history", "intents", "intents_history",
     "decisions", "decisions_history", "metrics"}

\* C13: a load that finds a snapshot changes only the market, indicators,
\* indicators_history, intents, intents_history, decisions and
\* decisions_history entries of the instrument and the metrics; every other
\* section of the Context, the Market Cache, the Indicator Store and the
\* config (with its instrument) are as before the call.
C13_LoadFrame ==
    (obs.op = "load" /\ SnapshotPresent)
        => /\ DOMAIN context = DOMAIN obs.context_before
           /\ \A k \in DOMAIN context \ RestoredKeys : context[k] = obs.context_before[k]
           /\ cache = obs.cache_before
           /\ store = obs.store_before
           /\ cfg = obs.cfg_before

\* A load that restored an earlier snapshot over a context that later ticks
\* had changed, with price history and cache filled.
C13_Witness ==
    /\ obs.op = "load"
    /\ SnapshotPresent
    /\ obs.applied
    /\ context # obs.context_before
    /\ context.price_history # <<>>
    /\ cache.ticker # None
    /\ store.fast_history # <<>>

\* What a Context holds for the instrument in the sections a snapshot
\* carries; an instrument without an intents entry has the intents [].
StateView(ctx) ==
    [ market             |-> ctx.market,
      indicators         |-> ctx.indicators,
      indicators_history |-> ctx.indicators_history,
      intents            |-> IF ctx.intents = None THEN <<>> ELSE ctx.intents[1],
      intents_history    |-> ctx.intents_history,
      decisions          |-> ctx.decisions,
      decisions_history  |-> ctx.decisions_history,
      metrics            |-> ctx.metrics ]

\* C14: a snapshot made from a Context that ticks have built, saved under the
\* key, loaded from the key and applied to a freshly initialised Context
\* reproduces the market view, the indicator snapshot and history, the
\* intents and history, the decision and history and the metrics of the
\* original Context.
C14_RoundTrip ==
    (obs.op = "load" /\ obs.fresh /\ obs.found # None /\ obs.origin # None)
        => /\ obs.applied
           /\ StateView(context) = StateView(obs.origin[1])

\* A fresh context restored from the snapshot of a context that had a
\* market view, indicators, a decision and histories.
C14_Witness ==
    /\ obs.op = "load"
    /\ obs.fresh
    /\ obs.applied
    /\ obs.origin # None
    /\ obs.origin[1].decisions # None
    /\ obs.origin[1].indicators_history # <<>>
    /\ obs.origin[1].intents_history # <<>>
    /\ DOMAIN obs.origin[1].market # {}
    /\ context.metrics # init_context.metrics

\* The members of a snapshot.
SnapshotKeys ==
    {"symbol", "ticker_id", "market", "indicators", "indicators_history",
     "intents", "intents_history", "decision", "decisions_history", "metrics"}

\* C15: a snapshot built from a reachable Context consists of exactly the
\* symbol, the tick counter, the market view, the indicator snapshot and its
\* history, the intents and their history, the decision and its history and
\* the metrics, each as the Context holds it; it has no other member (no
\* order book, no trade or bar FIFO, no registry, store, config or handle).
C15_SnapshotMembers ==
    obs.op = "save_snapshot"
        => /\ DOMAIN obs.snapshot = SnapshotKeys
           /\ obs.snapshot.symbol = OwnSymbol
           /\ obs.snapshot.ticker_id = obs.ticker_id
           /\ obs.snapshot.market
                = (IF DOMAIN context.market = {} THEN None ELSE Some(context.market))
           /\ obs.snapshot.indicators = context.indicators
           /\ obs.snapshot.indicators_history = context.indicators_history
           /\ obs.snapshot.intents = StateView(context).intents
           /\ obs.snapshot.intents_history = context.intents_history
           /\ obs.snapshot.decision = context.decisions
           /\ obs.snapshot.decisions_history = context.decisions_history
           /\ obs.snapshot.metrics = context.metrics

\* A snapshot made while the Context has a price history and the cache and
\* the store are filled.
C15_Witness ==
    /\ obs.op = "save_snapshot"
    /\ obs.ticker_id > 0
    /\ context.price_history # <<>>
    /\ cache.ticker # None
    /\ store.fast_history # <<>>
    /\ obs.snapshot.market # None

\* The document of the key is missing, or it is not JSON, or its root is
\* not an object, or reading it fails.
NoUsableDocument ==
    \/ saved = None
    \/ saved[1].kind # "object"
    \/ ~obs.io_ok

\* C24: when the document of the key is missing, unreadable, not parseable
\* or not an object at its root, the store's load returns null without
\* raising, and StateSnapshotService.load returns 0 and leaves the Context
\* unchanged, so that the run starts from tick 0.
C24_InvalidSnapshotIsNoSnapshot ==
    (obs.op = "load" /\ NoUsableDocument)
        => /\ ~obs.raised
           /\ obs.found = None
           /\ obs.result = 0
           /\ ~obs.applied
           /\ context = obs.context_before
           /\ tick_id = 0

\* A load on a filled context that met a text that is not JSON.
C24_Witness ==
    /\ obs.op = "load"
    /\ saved = Some([kind |-> "garbage"])
    /\ obs.io_ok
    /\ obs.context_before # init_context

\* A load that met a JSON array; a load whose read failed on a good file.
C24_WitnessOther ==
    /\ obs.op = "load"
    /\ \/ saved = Some([kind |-> "array"])
       \/ ~obs.io_ok /\ saved # None /\ saved[1].kind = "object"

NextTickOutputs(ctx, n, price) ==
    LET ind == compute_indicators(ctx, store, cfg, n + 1, price)
    IN  [ ticker_id |-> n + 1,
          indicators |-> ind.snapshot,
          appends |-> ind.appends,
          decision |-> decide(evaluate_strategies(n + 1), ind.context) ]

\* C38: a run that saves a snapshot at tick N, is restarted and loads that
\* snapshot gives the ticks that follow the ids N + 1, N + 2, ... and
\* produces for them the same indicator snapshots, cadence-history appends
\* and decisions as the uninterrupted run over the same ticks.
C38_RecoveryEquivalence ==
    (obs.op = "load" /\ obs.fresh /\ obs.applied /\ obs.origin # None)
        => /\ tick_id = PersistedCounter(obs.found[1])
           /\ \A price \in PriceValues :
                 NextTickOutputs(context, tick_id, price)
                     = NextTickOutputs(obs.origin[1], PersistedCounter(obs.found[1]), price)

-----------------------------------------------------------------------------
(* Claims about the snapshot written by the service (SpecPipeline) *)

\* The maybe_save call observed was due: interval > 0 and tick_id a multiple.
SaveDue == cfg.snap > 0 /\ \E k \in 0..obs.tick_id : obs.tick_id = k * cfg.snap

\* C16: last write wins: after a maybe_save call that fires and whose write
\* does not fail, the store holds under the key the snapshot that call built
\* from the Context, and a load reads that snapshot; a call that does not
\* fire, or whose write fails, leaves the stored snapshot as it was.
C16_LastWriteWins ==
    obs.op = "maybe_save"
        => IF SaveDue /\ obs.io_ok
           THEN load_snapshot(saved, TRUE) = Some(make_state_snapshot(context, obs.tick_id))
           ELSE saved = obs.saved_before

\* C23: when the write of the store fails with an I/O error during a
\* maybe_save that fired, no exception reaches the tick loop (the write was
\* tried and the call returned), and the snapshot stored under the key
\* before the call is still there, whole.
C23_WriteFailureNotFatal ==
    (obs.op = "maybe_save" /\ SaveDue /\ ~obs.io_ok)
        => /\ ~obs.raised
           /\ obs.built
           /\ writes = obs.writes_before + 1
           /\ saved = obs.saved_before

\* C34: the snapshot the main loop writes at a due tick N is taken at the
\* tick boundary and is self-consistent: it records tick counter N and
\* metrics.ticks = N, and its market view, indicator snapshot, intents and
\* decision are those tick N produced.
C34_SnapshotOfTickBoundary ==
    (obs.op = "process_tick" /\ pc \in {"loop", "raised"} /\ SaveDue)
        => /\ load_snapshot(saved, TRUE) = Some(make_state_snapshot(context, obs.tick_id))
           /\ context.metrics.ticks = obs.tick_id
           /\ context.market.ts = obs.ts
           /\ context.indicators # None /\ context.indicators[1].ticker_id = obs.tick_id
           /\ context.intents = Some(evaluate_strategies(obs.tick_id))
           /\ context.decisions = Some(DecisionOfTick(obs.tick_id))

-----------------------------------------------------------------------------
(* Claims about the order book refresh worker (SpecWorker) *)

\* What one pass of the loop does, in order.
IterationOrder == <<"fetch", "update", "check", "sleep">>

\* The worker has done its steps in the order of the loop, pass after pass.
TraceInOrder ==
    \A i \in 1..Len(worker.trace) : worker.trace[i] = IterationOrder[((i - 1) % 4) + 1]

\* C17: in every iteration the worker fetches, then updates the cache, then
\* checks the stop condition, then sleeps; when the stop condition is
\* already true at the start it still fetches: it never makes a second fetch
\* nor sleeps, and when it returns it has made exactly one fetch and one
\* order book update.
C17_AtLeastOneFetch ==
    /\ TraceInOrder
    /\ worker.stop_at_start
         => /\ worker.fetches <= 1
            /\ worker.sleeps = 0
            /\ worker.pc = "returned"
                 => /\ worker.fetches = 1
                    /\ worker.updates = 1
                    /\ worker.trace = <<"fetch", "update", "check">>
                    /\ cache.orderbook # None

\* A worker started with the stop condition true that has returned.
C17_Witness ==
    /\ worker.stop_at_start
    /\ worker.pc = "returned"
    /\ worker.fetches = 1

\* The order book the cache holds after the books the worker has stored:
\* none before the first, else the last one trimmed to the depth.
LastStoredBook ==
    IF worker.fetched = <<>> THEN None
    ELSE update_orderbook(InMemoryMarketCache_init,
                          worker.fetched[Len(worker.fetched)], cfg).orderbook

\* C18: once a fetch has raised, the worker has ended with that error: it
\* made no update for the failed fetch (one update less than fetches), it
\* makes no further fetch, and the cache holds the order book of the last
\* fetch that succeeded.
C18_FetchErrorEndsWorker ==
    worker.errors > 0
        => /\ worker.pc = "failed"
           /\ worker.error = "fetch"
           /\ worker.errors = 1
           /\ worker.updates = worker.fetches - 1
           /\ Len(worker.fetched) = worker.updates
           /\ worker.trace[Len(worker.trace)] = "fetch"
           /\ cache.orderbook = LastStoredBook

\* A fetch that raised after an earlier fetch had stored a book.
C18_Witness ==
    /\ worker.errors = 1
    /\ worker.pc = "failed"
    /\ worker.fetches = 2
    /\ cache.orderbook # None

\* The step is one of the worker's: its position or its trace changes.
WorkerStep == worker'.pc # worker.pc \/ worker'.trace # worker.trace

\* C19: every step of the refresh worker leaves the ticker, the trade FIFO
\* and the bar FIFO of the Market Cache, the Indicator Store and every
\* section of the Context unchanged; the order book slot of the cache is
\* all it writes.
C19_WorkerFrame ==
    [][WorkerStep => /\ cache'.ticker = cache.ticker
                     /\ cache'.trades = cache.trades
                     /\ cache'.bars = cache.bars
                     /\ store' = store
                     /\ context' = context
                     /\ UNCHANGED <<cfg, saved, writes, tick_id>>]_vars

\* The worker has stored a book in a cache that holds a ticker, a trade and
\* a bar.
C19_Witness ==
    /\ worker.updates > 0
    /\ cache.orderbook # None
    /\ cache.ticker # None
    /\ cache.trades # <<>>
    /\ cache.bars # <<>>

\* The complete book of one fetch as the cache stores it: trimmed to the
\* depth of the pair, under the symbol of the book or of the cache.
TrimmedBook(order_book) ==
    update_orderbook(InMemoryMarketCache_init, order_book, cfg).orderbook

\* No side of a stored book is longer than the depth.
DepthTrimmed(book) == Len(book.bids) <= cfg.depth /\ Len(book.asks) <= cfg.depth

\* C20: under every interleaving of the tick loop and the worker, and
\* wherever the worker is cancelled, the order book stored in the Market
\* Cache is absent while no fetch has completed, and otherwise is the
\* complete depth-trimmed book of one single fetch, the last that
\* completed; it is never made of two fetches.
C20_BookOfOneFetch ==
    IF worker.fetched = <<>>
    THEN cache.orderbook = None
    ELSE /\ \E i \in 1..Len(worker.fetched) : cache.orderbook = TrimmedBook(worker.fetched[i])
         /\ cache.orderbook = LastStoredBook
         /\ DepthTrimmed(cache.orderbook[1])

\* The worker was cancelled in its second fetch, after the tick loop had
\* run, with the book of the first fetch stored.
C20_Witness ==
    /\ worker.pc = "cancelled"
    /\ worker.cancelled_at = "fetching"
    /\ worker.fetches = 2
    /\ Len(worker.fetched) = 1
    /\ cache.orderbook # None
    /\ tick_id > 0

\* The worker was cancelled in its sleep.
C20_WitnessSleeping ==
    /\ worker.pc = "cancelled"
    /\ worker.cancelled_at = "sleeping"
    /\ cache.orderbook # None

\* run_realtime_from_exchange has returned or raised.
MainEnded == pc \in {"closed", "aborted"}

\* C21: whenever the tick loop of run_realtime_from_exchange has ended, by
\* the end of the stream or by an exception, the worker is no longer
\* running and the connector has been closed by the time
\* run_realtime_from_exchange returns or raises, whatever the worker was
\* doing (fetching, sleeping, or already ended by its own fetch error).
C21_CancelAndClose ==
    MainEnded
        => /\ worker.pc \notin Awaiting
           /\ obs.op = "await_task"
           /\ obs.connector_closed

\* The position of run_realtime_from_exchange: in the tick loop, in its
\* finally, or past it.
RealtimeRun == pc \in {"ticks", "core_ticks", "finally", "closed", "aborted"}

\* C36: in the asynchronous real-time mode the trade FIFO and the bar FIFO
\* of the Market Cache are never written: the tick pipeline writes only the
\* ticker slot, the refresh worker only the order book slot, so trades and
\* bars stay empty for the whole run.
C36_RealtimeLeavesFifosEmpty ==
    RealtimeRun =>
        /\ cache.trades = <<>>
        /\ cache.bars = <<>>
        /\ cache.ticker # None => tick_id > 0
        /\ cache.orderbook = LastStoredBook

\* A run that ended after a tick was handed to the pipeline and the worker
\* stored a book: both slots are filled, the FIFOs are empty.
C36_Witness ==
    /\ pc = "closed"
    /\ tick_id = 1
    /\ worker.updates >= 1
    /\ cache.ticker # None
    /\ cache.orderbook # None
    /\ cache.trades = <<>>

RECURSIVE RunAlone(_)
RunAlone(ticks) ==
    IF ticks = <<>>
    THEN [ context |-> init_context, cache |-> InMemoryMarketCache_init,
           store |-> InMemoryIndicatorStore_init, saved |-> None, writes |-> 0,
           n |-> 0, executed |-> <<>> ]
    ELSE LET before == RunAlone(SubSeq(ticks, 1, Len(ticks) - 1))
             tick   == ticks[Len(ticks)]
             r      == process_tick(before.context, before.cache, before.store, cfg,
                                    before.n + 1, tick.price, tick.ts)
             sv     == LoopSave(r, cfg, before.n + 1, before.saved, before.writes, tick.io_ok)
         IN  [ context |-> r.context, cache |-> r.cache, store |-> r.store,
               saved |-> sv.saved, writes |-> sv.writes, n |-> before.n + 1,
               executed |-> before.executed \o r.executed ]

\* The order book slots the worker can have left in the cache: none, or the
\* trimmed book of any fetch.
BookSlots ==
    {None} \cup UNION { { TrimmedBook(b) : b \in FetchResults(n) } : n \in 1..MaxFetches }

\* What process_tick and maybe_save produce for one tick on cache c, the
\* order book slot of the resulting cache left out.
TickOutcome(c, price, ts, io_ok) ==
    LET r  == process_tick(context, c, store, cfg, tick_id + 1, price, ts)
        sv == LoopSave(r, cfg, tick_id + 1, saved, writes, io_ok)
    IN  [ context |-> r.context, store |-> r.store, stages |-> r.stages,
          executed |-> r.executed, raised |-> r.raised,
          ticker |-> r.cache.ticker, trades |-> r.cache.trades, bars |-> r.cache.bars,
          saved |-> sv.saved, writes |-> sv.writes, save_raised |-> sv.raised ]

\* C39: for a given tick sequence the Context the tick pipeline produces
\* (market view, indicator snapshots, intents, decisions, metrics), its
\* execute calls and the snapshots it saves are the same in every
\* interleaving with the refresh worker and for every sequence of fetched
\* order books: they are those of the run with no worker, and what a tick
\* produces does not depend on the order book slot; the worker shows only
\* in the order book slot of the Market Cache, which the pipeline passes on
\* untouched.
C39_WorkerNonInterference ==
    /\ (RealtimeRun /\ obs.op = "process_tick")
         => LET alone == RunAlone(obs.ticks)
            IN  /\ context = alone.context
                /\ store = alone.store
                /\ saved = alone.saved
                /\ writes = alone.writes
                /\ tick_id = alone.n
                /\ cache.ticker = alone.cache.ticker
                /\ cache.trades = alone.cache.trades
                /\ cache.bars = alone.cache.bars
    /\ RealtimeRun
         => \A price \in PriceValues, ts \in 1..MaxTs, io_ok \in BOOLEAN :
              /\ \A book \in BookSlots :
                    TickOutcome(cache, price, ts, io_ok)
                        = TickOutcome([cache EXCEPT !.orderbook = book], price, ts, io_ok)
              /\ process_tick(context, cache, store, cfg, tick_id + 1, price, ts).cache.orderbook
                     = cache.orderbook

\* A tick went through the pipeline after the worker had stored two books,
\* and the run ended with the worker cancelled.
C39_Witness ==
    /\ obs.op = "process_tick"
    /\ Len(obs.ticks) = 1
    /\ worker.updates = 2
    /\ worker.pc = "cancelled"
    /\ cache.orderbook # None
    /\ cache.ticker # None
    /\ context.market # EmptyDict

\* The worker is stopped: it has an is_stopped callable that returns true.
WorkerStopped == worker.has_stop /\ worker.stop

\* What holds of the worker in every state: a stopped worker makes at most
\* one fetch-and-update past those made when the condition became true, and
\* has made exactly one when it returns; only a stopped worker returns; a
\* worker without an is_stopped callable is running, cancelled or failed.
WorkerEndsOnlyAsStated ==
    /\ WorkerStopped
         => /\ worker.updates <= worker.stopped_at + 1
            /\ worker.fetches <= worker.stopped_at + 1
            /\ worker.pc = "returned"
                 => /\ worker.updates = worker.stopped_at + 1
                    /\ worker.fetches = worker.updates
    /\ worker.pc = "returned" => WorkerStopped
    /\ ~worker.has_stop
         => /\ worker.pc \in Awaiting \cup {"cancelled", "failed"}
            /\ worker.pc = "cancelled" => worker.cancel_requested
            /\ worker.pc = "failed" => worker.errors = 1 /\ worker.error = "fetch"

\* C40: when an is_stopped callable is supplied and becomes true, and every
\* fetch returns, the worker eventually returns, after at most one further
\* fetch-and-update; without an is_stopped callable (as in
\* run_realtime_from_exchange) the worker never returns on its own: it ends
\* only by cancellation or by a fetch error.
C40_WorkerTermination ==
    /\ []WorkerEndsOnlyAsStated
    /\ WorkerStopped ~> (worker.pc = "returned" \/ worker.errors > 0)

\* The stop condition became true after the first pass, while the worker
\* slept; the worker made one more fetch-and-update and returned.
C40_Witness ==
    /\ worker.pc = "returned"
    /\ ~worker.stop_at_start
    /\ worker.stopped_at = 1
    /\ worker.updates = 2
    /\ worker.sleeps = 1

\* The worker of run_realtime_from_exchange still asleep after its last
\* pass, with no cancellation requested.
C40_WitnessRealtime ==
    /\ ~worker.has_stop
    /\ worker.pc = "sleeping"
    /\ worker.updates = MaxFetches
    /\ ~worker.cancel_requested

-----------------------------------------------------------------------------
(* Claims about load_config (SpecConfig) *)

\* The three cadence intervals of a configuration are all >= 1 and ordered.
IntervalsValid(c) == 1 <= c.fast /\ c.fast <= c.medium /\ c.medium <= c.heavy

\* C25: load_config ends with an error, with no Context built and no tick
\* processed, for every configuration in which a cadence interval is < 1 or
\* fast <= medium <= heavy does not hold; every configuration it returns
\* satisfies 1 <= fast <= medium <= heavy, and a Context is built and ticks
\* are processed only under such a configuration.
C25_ConfigFailsFast ==
    /\ (obs.op = "load_config" /\ obs.parsed /\ ~IntervalsValid(obs.requested[1]))
         => /\ obs.raised
            /\ pc = "config_error"
            /\ context = EmptyDict
            /\ tick_id = 0
    /\ (obs.op = "load_config" /\ ~obs.raised)
         => /\ IntervalsValid(cfg)
            /\ cfg = obs.requested[1]
    /\ pc \in {"configured", "built", "ticked"} => IntervalsValid(cfg)

\* load_config raised on intervals that are all >= 1 but out of order.
C25_Witness ==
    /\ pc = "config_error"
    /\ obs.parsed
    /\ obs.requested[1].fast = 2
    /\ obs.requested[1].medium = 1
    /\ obs.requested[1].heavy = 10

\* load_config returned a configuration read from the environment and the
\* first tick ran under it.
C25_WitnessReturned ==
    /\ pc = "ticked"
    /\ cfg.fast = 2
    /\ cfg.medium = 4
    /\ cfg.heavy = 10

====
